---- MODULE Spec2Model ----
(***************************************************************************)
(* A model of rswiki_wrapper: the Result type (result.py), route           *)
(* compilation (routes.py) and the operation facade (services/*.py) with   *)
(* the response decoders it calls (models/*.py).                           *)
(*                                                                         *)
(* Python strings are sequences of chunks.  A chunk is a run of characters *)
(* that contains no brace; the characters "{" and "}" are always chunks of *)
(* their own, so that a search for the two-character text "{}" is a search *)
(* for two adjacent chunks.  Concatenation is \o.                          *)
(*                                                                         *)
(* Python values are tagged records, dicts are sequences of key/value      *)
(* pairs in insertion order with unique keys.                              *)
(***************************************************************************)
EXTENDS Integers, Sequences, FiniteSets, TLC

VARIABLES
    \* ---- result.py: one Result object and the calls made on it
    res,        \* the Result object under test (NoResult before construction)
    given,      \* the argument the constructor was called with
    lastCall,   \* the last member called on res
    ret,        \* what that call did: returned a value or raised
    ncalls,     \* number of member calls made on res
    \* ---- routes.py: one CompiledRoute and the calls made on it
    cr,         \* the CompiledRoute (NoRoute before compile)
    compileOf,  \* the Route and the positional arguments compile was given
    plog,       \* the dicts passed to with_params, in call order
    prevParams, \* cr.params before the last with_params call
    \* ---- services: one facade call, suspended at its await
    pc,         \* "idle", "fetching" (awaiting the transport) or "done"
    call,       \* the operation and its arguments
    sent,       \* the CompiledRoute handed to fetch
    fetches,    \* number of fetch invocations made by this call
    reply,      \* what the transport answered: a JSON body or a failure
    outcome,    \* how the call ended: a return value or an exception
    \* ---- models: one raw JSON object and the from_raw calls made on it
    decoder,    \* the response class whose from_raw is called
    rawIn,      \* the raw object as it was handed over
    rawNow,     \* the same object as the calls so far have left it
    decodeLog,  \* what each from_raw call did, in call order
    \* ---- the process the library runs in
    tz,         \* offset of its local time zone from UTC, in seconds
    \* ---- asyncio: facade calls in flight together on one event loop
    tasks,      \* per task: where its handler is, its call, its route object
    heap        \* the CompiledRoute objects alive, by address

resultVars == <<res, given, lastCall, ret, ncalls>>
routeVars == <<cr, compileOf, plog, prevParams>>
facadeVars == <<pc, call, sent, fetches, reply, outcome>>
decodeVars == <<decoder, rawIn, rawNow, decodeLog, tz>>
taskVars == <<tasks, heap>>
vars == <<res, given, lastCall, ret, ncalls, cr, compileOf, plog, prevParams,
          pc, call, sent, fetches, reply, outcome,
          decoder, rawIn, rawNow, decodeLog, tz, tasks, heap>>

----------------------------------------------------------------------------
(* Bounds *)

MaxCalls == 3        \* member calls made on one Result
MaxArgs == 2         \* positional arguments given to Route.compile
MaxWithParams == 2   \* with_params calls made on one CompiledRoute
MaxTokens == 2       \* variadic tokens (ids, names) of one facade call
MaxParsedInt == 50000  \* largest number whose decimal text int() is given

----------------------------------------------------------------------------
(* Python values *)

NoneV == [t |-> "None"]
IntV(n) == [t |-> "int", n |-> n]
StrV(s) == [t |-> "str", s |-> s]
BoolV(b) == [t |-> "bool", b |-> b]
ListV(xs) == [t |-> "list", xs |-> xs]
DictV(kv) == [t |-> "dict", kv |-> kv]

\* bool(v): the truth value Python's `if v:` and `not v` use
Truthy(v) ==
    CASE v.t = "None" -> FALSE
      [] v.t = "int" -> v.n # 0
      [] v.t = "str" -> v.s # <<>>
      [] v.t = "bool" -> v.b
      [] v.t = "list" -> v.xs # <<>>
      [] v.t = "dict" -> v.kv # <<>>
      [] OTHER -> TRUE

\* str(v) for the values that are formatted into text
PyStr(v) ==
    CASE v.t = "None" -> <<"None">>
      [] v.t = "int" -> <<ToString(v.n)>>
      [] v.t = "str" -> v.s
      [] v.t = "bool" -> IF v.b THEN <<"True">> ELSE <<"False">>
      [] OTHER -> <<"<object>">>

\* needle in haystack, for strings
Contains(hay, needle) ==
    \E i \in 1..(Len(hay) - Len(needle) + 1) :
        SubSeq(hay, i, i + Len(needle) - 1) = needle

----------------------------------------------------------------------------
(* dicts: sequences of [k, v] in insertion order *)

Keys(d) == [i \in 1..Len(d) |-> d[i].k]
HasKey(d, k) == \E i \in 1..Len(d) : d[i].k = k
Get(d, k) == d[CHOOSE i \in 1..Len(d) : d[i].k = k].v

\* d.get(k): None for a missing key
DictGet(d, k) == IF HasKey(d, k) THEN Get(d, k) ELSE NoneV

\* d[k] = v
DictSet(d, k, v) ==
    IF HasKey(d, k)
    THEN [i \in 1..Len(d) |-> IF d[i].k = k THEN [k |-> k, v |-> v] ELSE d[i]]
    ELSE Append(d, [k |-> k, v |-> v])

----------------------------------------------------------------------------
(* errors.py *)

Return(v) == [kind |-> "return", val |-> v]
Raise(e) == [kind |-> "raise", err |-> e]
NoOutcome == [kind |-> "none"]

\* ", ".join(args)
RECURSIVE JoinWith(_, _)
JoinWith(strs, sep) ==
    IF strs = <<>> THEN <<>>
    ELSE IF Len(strs) = 1 THEN strs[1]
    ELSE strs[1] \o sep \o JoinWith(Tail(strs), sep)

UnwrapError(message) ==
    [exc |-> "UnwrapError", msg |-> <<"Unwrap failed: ">> \o message]

MissingArgumentError(message) ==
    [exc |-> "MissingArgumentError",
     msg |-> <<"Missing required argument: ">> \o message]

ConflictingArgumentError(args) ==
    [exc |-> "ConflictingArgumentError",
     msg |-> <<"Arguments conflict: ">> \o JoinWith(args, <<", ">>)]

\* exceptions of the interpreter, raised by a failed lookup
KeyError(key) == [exc |-> "KeyError", msg |-> <<"'", key, "'">>]
TypeError(message) == [exc |-> "TypeError", msg |-> message]
AttributeError(message) == [exc |-> "AttributeError", msg |-> message]

----------------------------------------------------------------------------
(* result.py *)

NoResult == [cls |-> "none"]

\* Ok.__init__: only _value is assigned
Ok(value) == [cls |-> "Ok", slots |-> ("_value" :> value)]

\* Err.__init__: only _error is assigned
Err(error) == [cls |-> "Err", slots |-> ("_error" :> error)]

Ok_is_ok(r) == TRUE
Ok_is_err(r) == FALSE

Err_is_ok_mut(r) == TRUE
Err_is_ok(r) == FALSE
Err_is_err(r) == TRUE

Ok_unwrap_mut(r) == Return(StrV(PyStr(r.slots["_value"])))
Ok_unwrap(r) == Return(r.slots["_value"])

Ok_unwrap_err(r) ==
    Raise(UnwrapError(<<"Called unwrap error on an non error value - ">>
                      \o PyStr(r.slots["_value"])))

Err_unwrap_mut(r) == Raise(UnwrapError(<<"Called unwrap on an error value">>))
Err_unwrap(r) ==
    Raise(UnwrapError(<<"Called unwrap on an error value - ">>
                      \o PyStr(r.slots["_error"])))

Err_unwrap_err(r) == Return(r.slots["_error"])

\* dispatch on the concrete class
is_ok(r) == IF r.cls = "Ok" THEN Ok_is_ok(r) ELSE Err_is_ok(r)
is_err(r) == IF r.cls = "Ok" THEN Ok_is_err(r) ELSE Err_is_err(r)
unwrap(r) == IF r.cls = "Ok" THEN Ok_unwrap(r) ELSE Err_unwrap(r)
unwrap_err(r) == IF r.cls = "Ok" THEN Ok_unwrap_err(r) ELSE Err_unwrap_err(r)

\* payloads a Result is built from
Payloads ==
    {NoneV, IntV(0), IntV(4151), StrV(<<"no items found">>), StrV(<<>>)}

RouteIdle ==
    /\ cr = [made |-> FALSE]
    /\ compileOf = [made |-> FALSE]
    /\ plog = <<>>
    /\ prevParams = <<>>

FacadeIdle ==
    /\ pc = "idle"
    /\ call = [op |-> "none"]
    /\ sent = [made |-> FALSE]
    /\ fetches = 0
    /\ reply = [kind |-> "none"]
    /\ outcome = NoOutcome

DecodeIdle ==
    /\ decoder = "none"
    /\ rawIn = NoneV
    /\ rawNow = NoneV
    /\ decodeLog = <<>>
    /\ tz = 0

\* the two calls that are in flight together, and where their routes live
Tasks == {"a", "b"}
Addresses == 1..Cardinality(Tasks)
NoObject == [made |-> FALSE]
IdleTask == [pc |-> "idle"]

TaskIdle ==
    /\ tasks = [s \in Tasks |-> IdleTask]
    /\ heap = [a \in Addresses |-> NoObject]

ResultIdle ==
    /\ res = NoResult
    /\ given = [ctor |-> "none"]
    /\ lastCall = "none"
    /\ ret = NoOutcome
    /\ ncalls = 0

\* Result.__new__ on the base class: no object is made
NewResult ==
    /\ res' = NoResult
    /\ given' = [ctor |-> "Result"]
    /\ lastCall' = "__new__"
    /\ ret' = Raise(TypeError(<<"Only Result subclasses can be instantiated.">>))
    /\ ncalls' = 0
    /\ UNCHANGED <<routeVars, facadeVars, decodeVars, taskVars>>

NewOk(v) ==
    /\ res' = Ok(v)
    /\ given' = [ctor |-> "Ok", arg |-> v]
    /\ lastCall' = "__init__"
    /\ ret' = NoOutcome
    /\ ncalls' = 0
    /\ UNCHANGED <<routeVars, facadeVars, decodeVars, taskVars>>

NewErr(e) ==
    /\ res' = Err(e)
    /\ given' = [ctor |-> "Err", arg |-> e]
    /\ lastCall' = "__init__"
    /\ ret' = NoOutcome
    /\ ncalls' = 0
    /\ UNCHANGED <<routeVars, facadeVars, decodeVars, taskVars>>

\* a member call on the object; none of them assigns to it
Member(name, result) ==
    /\ res.cls # "none"
    /\ ncalls < MaxCalls
    /\ lastCall' = name
    /\ ret' = result
    /\ ncalls' = ncalls + 1
    /\ UNCHANGED <<res, given, routeVars, facadeVars, decodeVars, taskVars>>

GetIsOk == Member("is_ok", Return(BoolV(is_ok(res))))
GetIsErr == Member("is_err", Return(BoolV(is_err(res))))
Unwrap == Member("unwrap", unwrap(res))
UnwrapErr == Member("unwrap_err", unwrap_err(res))

ResultInit == ResultIdle /\ RouteIdle /\ FacadeIdle /\ TaskIdle /\ DecodeIdle

ResultNext ==
    \/ NewResult
    \/ \E v \in Payloads : NewOk(v)
    \/ \E e \in Payloads : NewErr(e)
    \/ GetIsOk
    \/ GetIsErr
    \/ Unwrap
    \/ UnwrapErr

ResultSpec == ResultInit /\ [][ResultNext]_vars

\* C5: every Result is exactly one of the two variants, for as long as it
\* lives: is_ok is the negation of is_err, an Ok reports is_ok and an Err
\* reports is_err, the class is the one it was constructed as, and exactly
\* the slot of that variant is populated, with the constructor's argument.
ResultTagAgreesWithSlot ==
    res.cls # "none" =>
        /\ res.cls \in {"Ok", "Err"}
        /\ res.cls = given.ctor
        /\ is_ok(res) = ~is_err(res)
        /\ (res.cls = "Ok" => is_ok(res))
        /\ (res.cls = "Err" => is_err(res))
        /\ (is_ok(res) => DOMAIN res.slots = {"_value"}
                          /\ res.slots["_value"] = given.arg)
        /\ (is_err(res) => DOMAIN res.slots = {"_error"}
                           /\ res.slots["_error"] = given.arg)
        /\ (lastCall = "is_ok" => ret = Return(BoolV(res.cls = "Ok")))
        /\ (lastCall = "is_err" => ret = Return(BoolV(res.cls = "Err")))

ErrAskedIsOkTwice ==
    /\ res.cls = "Err"
    /\ lastCall = "is_ok"
    /\ ncalls >= 2
    /\ ret = Return(BoolV(FALSE))

\* C6: unwrap() on an Err and unwrap_err() on an Ok raise UnwrapError, the
\* message contains the string form of the payload held, and the Result
\* still holds that payload afterwards.
WrongAccessorRaisesUnwrapError ==
    /\ (res.cls = "Err" /\ lastCall = "unwrap") =>
           /\ ret.kind = "raise"
           /\ ret.err.exc = "UnwrapError"
           /\ Contains(ret.err.msg, PyStr(given.arg))
           /\ res = Err(given.arg)
    /\ (res.cls = "Ok" /\ lastCall = "unwrap_err") =>
           /\ ret.kind = "raise"
           /\ ret.err.exc = "UnwrapError"
           /\ Contains(ret.err.msg, PyStr(given.arg))
           /\ res = Ok(given.arg)

ErrUnwrapRaised ==
    /\ res.cls = "Err"
    /\ lastCall = "unwrap"
    /\ given.arg = StrV(<<"no items found">>)
    /\ ret.kind = "raise"

\* C7: Ok(v).unwrap() returns v and Err(e).unwrap_err() returns e, on the
\* first call and on every later one.
UnwrapReturnsPayload ==
    /\ (res.cls = "Ok" /\ lastCall = "unwrap") => ret = Return(given.arg)
    /\ (res.cls = "Err" /\ lastCall = "unwrap_err") => ret = Return(given.arg)

OkUnwrappedRepeatedly ==
    /\ res.cls = "Ok"
    /\ lastCall = "unwrap"
    /\ ncalls >= 2
    /\ given.arg = IntV(4151)
    /\ ret = Return(IntV(4151))

----------------------------------------------------------------------------
(* enums.py, routes.py *)

BaseUrlValue(b) ==
    CASE b = "WEIRD_GLOOP" -> <<"https://api.weirdgloop.org">>
      [] b = "MEDIAWIKI" -> <<"https://runescape.wiki/api.php">>
      [] b = "MEDIAWIKI_OSRS" -> <<"https://oldschool.runescape.wiki/api.php">>
      [] b = "REALTIME_WIKI_PRICE" -> <<"https://prices.runescape.wiki/api/v1">>

Placeholder == <<"{", "}">>

Route(base, uri) == [base |-> base, uri |-> uri]

VOS == Route("WEIRD_GLOOP", <<"/runescape/vos">>)
VOS_HISTORY == Route("WEIRD_GLOOP", <<"/runescape/vos/history">>)
LATEST_EXCHANGE_UPDATE == Route("WEIRD_GLOOP", <<"/exchange">>)
LATEST_EXCHANGE_PRICE ==
    Route("WEIRD_GLOOP", <<"/exchange/history/", "{", "}", "/latest">>)
SOCIAL_FEED == Route("WEIRD_GLOOP", <<"/runescape/social">>)
LATEST_SOCIAL_FEED == Route("WEIRD_GLOOP", <<"/runescape/social/last">>)
HISTORICAL_EXCHANGE_PRICE ==
    Route("WEIRD_GLOOP", <<"/exchange/history/", "{", "}", "/", "{", "}">>)
TMS_CURRENT == Route("WEIRD_GLOOP", <<"/runescape/tms/current">>)
TMS_NEXT == Route("WEIRD_GLOOP", <<"/runescape/tms/next">>)
TMS_SEARCH == Route("WEIRD_GLOOP", <<"/runescape/tms/search">>)
REALTIME_PRICE == Route("REALTIME_WIKI_PRICE", <<"/", "{", "}", "/latest">>)

\* the two realtime routes the services name and routes.py does not define
REALTIME_AVG_PRICE == Route("REALTIME_WIKI_PRICE", <<"/", "{", "}", "/", "{", "}">>)
REALTIME_TIMESERIES ==
    Route("REALTIME_WIKI_PRICE", <<"/", "{", "}", "/timeseries">>)

Routes ==
    {VOS, VOS_HISTORY, LATEST_EXCHANGE_UPDATE, LATEST_EXCHANGE_PRICE,
     SOCIAL_FEED, LATEST_SOCIAL_FEED, HISTORICAL_EXCHANGE_PRICE, TMS_CURRENT,
     TMS_NEXT, TMS_SEARCH, REALTIME_PRICE}

\* CompiledRoute.__init__
CompiledRoute(route) ==
    [made |-> TRUE, base |-> route.base, uri |-> route.uri, params |-> <<>>]

\* index of the first occurrence of old in s, 0 when there is none
FindFirst(s, old) ==
    LET hits == {i \in 1..(Len(s) - Len(old) + 1) :
                    SubSeq(s, i, i + Len(old) - 1) = old}
    IN  IF hits = {} THEN 0
        ELSE CHOOSE i \in hits : \A j \in hits : i <= j

\* s.replace(old, new): every occurrence, left to right, without rescanning
RECURSIVE ReplaceAll(_, _, _)
ReplaceAll(s, old, new) ==
    IF Len(s) < Len(old) THEN s
    ELSE IF SubSeq(s, 1, Len(old)) = old
         THEN new \o ReplaceAll(SubSeq(s, Len(old) + 1, Len(s)), old, new)
         ELSE <<s[1]>> \o ReplaceAll(Tail(s), old, new)

ReplaceFirst_mut(s, old, new) == ReplaceAll(s, old, new)
\* s.replace(old, new, 1)
ReplaceFirst(s, old, new) ==
    LET i == FindFirst(s, old)
    IN  IF i = 0 THEN s
        ELSE SubSeq(s, 1, i - 1) \o new \o SubSeq(s, i + Len(old), Len(s))

\* the loop of Route.compile over the remaining arguments
RECURSIVE CompileLoop(_, _)
CompileLoop(compiled, args) ==
    IF args = <<>> THEN compiled
    ELSE CompileLoop(
            [compiled EXCEPT !.uri = ReplaceFirst(@, Placeholder, PyStr(args[1]))],
            Tail(args))

\* Route.compile: no check of the argument count, always returns
Route_compile(route, args) == Return(CompileLoop(CompiledRoute(route), args))

\* dict.update(other)
RECURSIVE DictUpdate(_, _)
DictUpdate(d, other) ==
    IF other = <<>> THEN d
    ELSE DictUpdate(DictSet(d, other[1].k, other[1].v), Tail(other))

CompiledRoute_with_params_mut(c, params) == [c EXCEPT !.params = params]
CompiledRoute_with_params(c, params) ==
    [c EXCEPT !.params = DictUpdate(@, params)]

\* positional arguments given to compile: an enum wire value, an integer, a
\* string with a lone brace and a string that is itself the placeholder text
ArgValues == {StrV(<<"rs">>), IntV(90), StrV(<<"{">>), StrV(<<"{", "}">>)}

SeqsUpTo(S, n) == UNION {[1..m -> S] : m \in 0..n}

ParamKeys == {"id", "lang"}
ParamValues == {IntV(1), StrV(<<"en">>)}

\* every dict over ParamKeys: unique keys, any insertion order
ParamDicts ==
    {d \in SeqsUpTo([k : ParamKeys, v : ParamValues], Cardinality(ParamKeys)) :
        \A i, j \in 1..Len(d) : d[i].k = d[j].k => i = j}

\* a CompiledRoute is made by compile, once, before anything is done with it
Compile(route, args) ==
    LET out == Route_compile(route, args)
    IN  /\ ~compileOf.made
        /\ compileOf' = [made |-> TRUE, route |-> route, args |-> args,
                         out |-> out.kind]
        /\ cr' = IF out.kind = "return" THEN out.val ELSE [made |-> FALSE]
        /\ plog' = <<>>
        /\ prevParams' = <<>>
        /\ UNCHANGED <<resultVars, facadeVars, decodeVars, taskVars>>

WithParams(params) ==
    /\ cr.made
    /\ Len(plog) < MaxWithParams
    /\ prevParams' = cr.params
    /\ cr' = CompiledRoute_with_params(cr, params)
    /\ plog' = Append(plog, params)
    /\ UNCHANGED <<compileOf, resultVars, facadeVars, decodeVars, taskVars>>

CompileInit == ResultIdle /\ RouteIdle /\ FacadeIdle /\ TaskIdle /\ DecodeIdle

CompileNext ==
    \E route \in Routes, args \in SeqsUpTo(ArgValues, MaxArgs) :
        Compile(route, args)

\* Route.compile alone, on every Route constant
CompileSpec == CompileInit /\ [][CompileNext]_vars

\* a route as the services make it before adding parameters: R.compile()
ParamsInit ==
    /\ ResultIdle
    /\ FacadeIdle /\ TaskIdle
    /\ DecodeIdle
    /\ \E route \in Routes :
          /\ compileOf = [made |-> TRUE, route |-> route, args |-> <<>>,
                          out |-> "return"]
          /\ cr = Route_compile(route, <<>>).val
    /\ plog = <<>>
    /\ prevParams = <<>>

ParamsNext == \E params \in ParamDicts : WithParams(params)

\* with_params calls on one CompiledRoute
ParamsSpec == ParamsInit /\ [][ParamsNext]_vars

\* number of placeholders of a template
RECURSIVE Placeholders(_)
Placeholders(uri) ==
    IF Len(uri) < 2 THEN 0
    ELSE IF SubSeq(uri, 1, 2) = Placeholder
         THEN 1 + Placeholders(SubSeq(uri, 3, Len(uri)))
         ELSE Placeholders(Tail(uri))

\* the template with its i-th placeholder, left to right, replaced by the
\* string form of the i-th argument
RECURSIVE Substituted(_, _)
Substituted(uri, args) ==
    IF uri = <<>> THEN <<>>
    ELSE IF Len(uri) >= 2 /\ SubSeq(uri, 1, 2) = Placeholder /\ args # <<>>
         THEN PyStr(args[1]) \o Substituted(SubSeq(uri, 3, Len(uri)), Tail(args))
         ELSE <<uri[1]>> \o Substituted(Tail(uri), args)

\* the keys of the dicts of a log, in the order first seen
RECURSIVE FirstSeen(_, _)
FirstSeen(ks, acc) ==
    IF ks = <<>> THEN acc
    ELSE FirstSeen(Tail(ks),
                   IF \E i \in 1..Len(acc) : acc[i] = ks[1]
                   THEN acc ELSE Append(acc, ks[1]))

RECURSIVE LogKeys(_)
LogKeys(log) == IF log = <<>> THEN <<>> ELSE Keys(log[1]) \o LogKeys(Tail(log))

\* the last call of the log that supplied key k
LastSupplier(log, k) ==
    CHOOSE i \in 1..Len(log) :
        /\ HasKey(log[i], k)
        /\ \A j \in (i + 1)..Len(log) : ~HasKey(log[j], k)

\* C8 (as claimed): with as many arguments as placeholders, compile puts the
\* string form of the i-th argument in place of the i-th placeholder and
\* leaves no placeholder in the uri.
CompileSubstitutesLeftToRight ==
    (compileOf.made /\ Len(compileOf.args) = Placeholders(compileOf.route.uri)) =>
        /\ compileOf.out = "return"
        /\ cr.uri = Substituted(compileOf.route.uri, compileOf.args)
        /\ ~Contains(cr.uri, Placeholder)

\* C8 (amended): the same, for arguments whose string forms do not contain
\* the placeholder text.
CompileSubstitutesPlainArgs ==
    (/\ compileOf.made
     /\ Len(compileOf.args) = Placeholders(compileOf.route.uri)
     /\ \A i \in 1..Len(compileOf.args) :
            ~Contains(PyStr(compileOf.args[i]), Placeholder)) =>
        /\ compileOf.out = "return"
        /\ cr.uri = Substituted(compileOf.route.uri, compileOf.args)
        /\ ~Contains(cr.uri, Placeholder)

TwoPlaceholdersCompiled ==
    /\ compileOf.made
    /\ compileOf.route = HISTORICAL_EXCHANGE_PRICE
    /\ compileOf.args = <<StrV(<<"rs">>), IntV(90)>>
    /\ cr.uri = <<"/exchange/history/", "rs", "/", "90">>

\* C9 (as claimed): compile with a number of arguments different from the
\* number of placeholders fails with MissingArgumentError and returns no
\* CompiledRoute.
CompileRejectsWrongArgCount ==
    (compileOf.made /\ Len(compileOf.args) # Placeholders(compileOf.route.uri)) =>
        /\ compileOf.out = "MissingArgumentError"
        /\ ~cr.made

\* C10: after any sequence of with_params calls each key maps to the value
\* of the last call that supplied it, the keys are in first-seen order, and
\* a call repeated with the same dict leaves the params as the first left
\* them.
WithParamsMerges ==
    (cr.made /\ plog # <<>>) =>
        /\ Keys(cr.params) = FirstSeen(LogKeys(plog), <<>>)
        /\ \A i \in 1..Len(cr.params) :
              cr.params[i].v =
                  Get(plog[LastSupplier(plog, cr.params[i].k)], cr.params[i].k)
        /\ (Len(plog) >= 2 /\ plog[Len(plog)] = plog[Len(plog) - 1]) =>
              cr.params = prevParams

OverriddenInOtherOrder ==
    /\ cr.made
    /\ Len(plog) = 2
    /\ plog[1] = <<[k |-> "id", v |-> IntV(1)], [k |-> "lang", v |-> IntV(1)]>>
    /\ plog[2] = <<[k |-> "lang", v |-> StrV(<<"en">>)]>>
    /\ cr.params = <<[k |-> "id", v |-> IntV(1)],
                     [k |-> "lang", v |-> StrV(<<"en">>)]>>

----------------------------------------------------------------------------
(* enums.py: a member is its class, its name and its wire value *)

Enum(cls, name, value) ==
    [t |-> "enum", cls |-> cls, name |-> name, value |-> value]

WgGameType ==
    {Enum("WgGameType", "RS", <<"rs">>),
     Enum("WgGameType", "OSRS", <<"osrs">>),
     Enum("WgGameType", "RS_FSW_2022", <<"rs-fsw-2022">>),
     Enum("WgGameType", "OSRS_FSW_2022", <<"osrs-fsw-2022">>)}

Locale ==
    {Enum("Locale", "EN", <<"en">>), Enum("Locale", "PT", <<"pt">>)}

RtGameType ==
    {Enum("RtGameType", "OSRS", <<"osrs">>),
     Enum("RtGameType", "DMM", <<"dmm">>),
     Enum("RtGameType", "FSW", <<"fsw">>)}

RtTimeFilter ==
    {Enum("RtTimeFilter", "FIVE_MINS", <<"5m">>),
     Enum("RtTimeFilter", "ONE_HOUR", <<"1h">>)}

TimeSeriesFilter ==
    {Enum("TimeSeriesFilter", "FIVE_MINS", <<"5m">>),
     Enum("TimeSeriesFilter", "ONE_HOUR", <<"1h">>),
     Enum("TimeSeriesFilter", "SIX_HOURS", <<"6h">>)}

TimeSeriesGameType ==
    {Enum("TimeSeriesGameType", "OSRS", <<"osrs">>),
     Enum("TimeSeriesGameType", "FSW", <<"fsw">>)}

WgTimeFilter ==
    {Enum("WgTimeFilter", "ALL", <<"all">>),
     Enum("WgTimeFilter", "SAMPLE", <<"sample">>),
     Enum("WgTimeFilter", "LAST_90_DAYS", <<"last90d">>)}

VosDistrict ==
    {Enum("VosDistrict", "AMLODD", <<"Amlodd">>),
     Enum("VosDistrict", "CADARN", <<"Cadarn">>),
     Enum("VosDistrict", "CRWYS", <<"Crwys">>),
     Enum("VosDistrict", "HEFIN", <<"Hefin">>),
     Enum("VosDistrict", "IORWERTH", <<"Iorwerth">>),
     Enum("VosDistrict", "ITHELL", <<"Ithell">>),
     Enum("VosDistrict", "MEILYR", <<"Meilyr">>),
     Enum("VosDistrict", "TRAHAEARN", <<"Trahaearn">>)}

----------------------------------------------------------------------------
(* datetime: naive calendar values, as the decoders and services use them *)

DateTime(y, mo, d, h, mi, sec, us) ==
    [t |-> "datetime", y |-> y, mo |-> mo, d |-> d,
     h |-> h, mi |-> mi, sec |-> sec, us |-> us]

\* zero-padded decimal text of n, w digits wide
RECURSIVE Pad(_, _)
Pad(n, w) ==
    IF w <= 1 \/ n >= 10 ^ (w - 1) THEN ToString(n)
    ELSE "0" \o Pad(n, w - 1)

\* the number a w-digit field stands for, -1 when it is not such a field
Unpad(chunk, w, lo, hi) ==
    IF \E n \in lo..hi : Pad(n, w) = chunk
    THEN CHOOSE n \in lo..hi : Pad(n, w) = chunk
    ELSE -1

IsLeap(y) == (y % 4 = 0 /\ y % 100 # 0) \/ y % 400 = 0

DaysInMonth(y, mo) ==
    CASE mo \in {1, 3, 5, 7, 8, 10, 12} -> 31
      [] mo \in {4, 6, 9, 11} -> 30
      [] OTHER -> IF IsLeap(y) THEN 29 ELSE 28

\* days since 1970-01-01 of a civil date
DaysFromCivil(y0, mo, d) ==
    LET y == IF mo <= 2 THEN y0 - 1 ELSE y0
        era == y \div 400
        yoe == y - era * 400
        mp == IF mo > 2 THEN mo - 3 ELSE mo + 9
        doy == (153 * mp + 2) \div 5 + d - 1
        doe == yoe * 365 + yoe \div 4 - yoe \div 100 + doy
    IN  era * 146097 + doe - 719468

\* the civil date of a day number
CivilFromDays(z0) ==
    LET z == z0 + 719468
        era == z \div 146097
        doe == z - era * 146097
        yoe == (doe - doe \div 1460 + doe \div 36524 - doe \div 146096) \div 365
        doy == doe - (365 * yoe + yoe \div 4 - yoe \div 100)
        mp == (5 * doy + 2) \div 153
        d == doy - (153 * mp + 2) \div 5 + 1
        mo == IF mp < 10 THEN mp + 3 ELSE mp - 9
        y == yoe + era * 400 + (IF mo <= 2 THEN 1 ELSE 0)
    IN  [y |-> y, mo |-> mo, d |-> d]

\* offset of the process's local zone from UTC, in seconds
LocalUtcOffset == tz

\* datetime.fromtimestamp of secs whole seconds and us microseconds
FromTimestamp(secs, us) ==
    LET total == secs + LocalUtcOffset
        days == total \div 86400
        rem == total - days * 86400
        c == CivilFromDays(days)
    IN  DateTime(c.y, c.mo, c.d, rem \div 3600, (rem % 3600) \div 60,
                 rem % 60, us)

\* int(dt.timestamp()) of a naive datetime (whole seconds, rounded to zero)
TimestampSeconds(dt) ==
    LET secs == DaysFromCivil(dt.y, dt.mo, dt.d) * 86400 + dt.h * 3600
                + dt.mi * 60 + dt.sec - LocalUtcOffset
    IN  IF secs < 0 /\ dt.us # 0 THEN secs + 1 ELSE secs

\* dt.isoformat()
isoformat(dt) ==
    <<Pad(dt.y, 4), "-", Pad(dt.mo, 2), "-", Pad(dt.d, 2), "T",
      Pad(dt.h, 2), ":", Pad(dt.mi, 2), ":", Pad(dt.sec, 2)>>
    \o (IF dt.us = 0 THEN <<>> ELSE <<".", Pad(dt.us, 6)>>)

ValueError(message) == [exc |-> "ValueError", msg |-> message]

ValidDate(y, mo, d) ==
    y \in 1..9999 /\ mo \in 1..12 /\ d >= 1 /\ d <= DaysInMonth(y, mo)

\* datetime.fromisoformat of a text YYYY-MM-DD or YYYY-MM-DDTHH:MM:SS
fromisoformat(text) ==
    LET bad == Raise(ValueError(<<"Invalid isoformat string">>))
        y == Unpad(text[1], 4, 1, 9999)
        mo == Unpad(text[3], 2, 1, 12)
        d == Unpad(text[5], 2, 1, 31)
    IN  IF Len(text) \notin {5, 11} THEN bad
        ELSE IF text[2] # "-" \/ text[4] # "-" THEN bad
        ELSE IF ~ValidDate(y, mo, d) THEN bad
        ELSE IF Len(text) = 5 THEN Return(DateTime(y, mo, d, 0, 0, 0, 0))
        ELSE LET h == Unpad(text[7], 2, 0, 23)
                 mi == Unpad(text[9], 2, 0, 59)
                 sec == Unpad(text[11], 2, 0, 59)
             IN  IF text[6] # "T" \/ text[8] # ":" \/ text[10] # ":" THEN bad
                 ELSE IF h < 0 \/ mi < 0 \/ sec < 0 THEN bad
                 ELSE Return(DateTime(y, mo, d, h, mi, sec, 0))

\* text.rstrip("Z")
RECURSIVE rstripZ(_)
rstripZ(text) ==
    IF text # <<>> /\ text[Len(text)] = "Z"
    THEN rstripZ(SubSeq(text, 1, Len(text) - 1))
    ELSE text

----------------------------------------------------------------------------
(* models: objects, lookups and the helpers of BaseResponse *)

\* cls(): a slotted dataclass instance with no attribute assigned yet
Model(cls) == [t |-> "model", cls |-> cls, attrs |-> <<>>]

\* setattr(self, name, value)
SetAttr(self, name, value) == [self EXCEPT !.attrs = DictSet(@, name, value)]

\* data[key] on a JSON value
GetItem(data, key) ==
    IF data.t = "dict"
    THEN IF HasKey(data.kv, key) THEN Return(Get(data.kv, key))
         ELSE Raise(KeyError(key))
    ELSE Raise(TypeError(<<"indices must be integers">>))

\* value[i] on a JSON array, i counted from 0
GetIndex(value, i) ==
    IF value.t = "list"
    THEN IF i + 1 <= Len(value.xs) THEN Return(value.xs[i + 1])
         ELSE Raise([exc |-> "IndexError", msg |-> <<"list index out of range">>])
    ELSE Raise(TypeError(<<"object is not subscriptable">>))

\* key in data: a key of an object, an element of an array
InData(key, data) ==
    CASE data.t = "dict" -> HasKey(data.kv, key)
      [] data.t = "list" -> \E i \in 1..Len(data.xs) : data.xs[i] = StrV(<<key>>)
      [] OTHER -> FALSE

\* [F(x) for x in xs], stopping at the first exception
RECURSIVE MapM(_, _, _)
MapM(F(_), xs, acc) ==
    IF xs = <<>> THEN Return(acc)
    ELSE LET r == F(xs[1])
         IN  IF r.kind = "raise" THEN r
             ELSE MapM(F, Tail(xs), Append(acc, r.val))

\* for attr in attrs: setattr(self, attr, data[attr])
RECURSIVE CopyItems(_, _, _)
CopyItems(self, data, attrs) ==
    IF attrs = <<>> THEN Return(self)
    ELSE LET item == GetItem(data, attrs[1])
         IN  IF item.kind = "raise" THEN item
             ELSE CopyItems(SetAttr(self, attrs[1], item.val), data, Tail(attrs))

\* BaseResponse._dt_from_iso
dt_from_iso(timestamp) ==
    IF timestamp.t # "str"
    THEN Raise(AttributeError(<<"object has no attribute 'rstrip'">>))
    ELSE fromisoformat(rstripZ(timestamp.s))

\* BaseResponse._dt_from_iso_maybe
dt_from_iso_maybe(timestamp) ==
    IF Truthy(timestamp) THEN dt_from_iso(timestamp) ELSE Return(NoneV)

\* BaseResponse._dt_from_epoch: timestamp / 1e3 when millis
dt_from_epoch_mut(timestamp, millis) ==
    IF timestamp.t # "int"
    THEN Raise(TypeError(<<"unsupported operand or argument type">>))
    ELSE Return(FromTimestamp(timestamp.n, 0))
dt_from_epoch(timestamp, millis) ==
    IF timestamp.t # "int"
    THEN Raise(TypeError(<<"unsupported operand or argument type">>))
    ELSE IF millis
         THEN Return(FromTimestamp(timestamp.n \div 1000,
                                   (timestamp.n % 1000) * 1000))
         ELSE Return(FromTimestamp(timestamp.n, 0))

----------------------------------------------------------------------------
(* models/shared.py, models/weird_gloop.py *)

shared_ErrorResponse_from_raw(data) ==
    LET e == GetItem(data, "error")
    IN  IF e.kind = "raise" THEN e
        ELSE Return(SetAttr(Model("ErrorResponse"), "error", e.val))

weird_gloop_ErrorResponse_from_raw(data) ==
    CopyItems(Model("ErrorResponse"), data, <<"success", "error">>)

\* models/__init__.py: the star imports, in order, and the modules whose
\* __all__ exports ErrorResponse; the last one imported binds the name
ModelsStarImports ==
    <<"base", "media_wiki", "realtime_wiki", "shared", "weird_gloop">>

ExportsErrorResponse == {"shared", "weird_gloop"}

ErrorResponseModule ==
    ModelsStarImports[
        CHOOSE i \in 1..Len(ModelsStarImports) :
            /\ ModelsStarImports[i] \in ExportsErrorResponse
            /\ \A j \in (i + 1)..Len(ModelsStarImports) :
                  ModelsStarImports[j] \notin ExportsErrorResponse]

\* models.ErrorResponse.from_raw, as the services call it
ErrorResponse_from_raw(data) ==
    IF ErrorResponseModule = "weird_gloop"
    THEN weird_gloop_ErrorResponse_from_raw(data)
    ELSE shared_ErrorResponse_from_raw(data)

PaginationMeta_from_raw(data) ==
    CopyItems(Model("PaginationMeta"), data,
              <<"has_more", "total_pages", "total_items">>)

\* text.upper(), for the texts that name a district
upper(text) ==
    IF \E m \in VosDistrict : m.value = text
    THEN <<(CHOOSE m \in VosDistrict : m.value = text).name>>
    ELSE text

\* getattr(enums.VosDistrict, name)
VosDistrict_getattr(name) ==
    IF \E m \in VosDistrict : <<m.name>> = name
    THEN Return(CHOOSE m \in VosDistrict : <<m.name>> = name)
    ELSE Raise(AttributeError(name))

\* the loop `for i in range(1, 3)` of VosResponse.from_raw
RECURSIVE VosDistricts(_, _, _)
VosDistricts(self, data, nums) ==
    IF nums = <<>> THEN Return(self)
    ELSE LET raw == GetItem(data, nums[1])
         IN  IF raw.kind = "raise" THEN raw
             ELSE IF raw.val.t # "str"
                  THEN Raise(AttributeError(<<"object has no attribute 'upper'">>))
             ELSE LET district == VosDistrict_getattr(upper(raw.val.s))
                  IN  IF district.kind = "raise" THEN district
                      ELSE VosDistricts(
                              SetAttr(self, nums[1], StrV(district.val.value)),
                              data, Tail(nums))

VosResponse_from_raw(data) ==
    LET raw == GetItem(data, "timestamp")
    IN  IF raw.kind = "raise" THEN raw
        ELSE LET ts == dt_from_iso(raw.val)
             IN  IF ts.kind = "raise" THEN ts
                 ELSE VosDistricts(SetAttr(Model("VosResponse"), "timestamp", ts.val),
                                   data, <<"district1", "district2">>)

\* the comprehension over data["data"], which must be iterable
MapData(F(_), data) ==
    LET items == GetItem(data, "data")
    IN  IF items.kind = "raise" THEN items
        ELSE IF items.val.t # "list"
             THEN Raise(TypeError(<<"object is not iterable">>))
        ELSE MapM(F, items.val.xs, <<>>)

VosHistoryResponse_from_raw(data) ==
    LET raw == GetItem(data, "pagination")
    IN  IF raw.kind = "raise" THEN raw
        ELSE LET pagination == PaginationMeta_from_raw(raw.val)
             IN  IF pagination.kind = "raise" THEN pagination
                 ELSE LET items == MapData(VosResponse_from_raw, data)
                      IN  IF items.kind = "raise" THEN items
                          ELSE Return(SetAttr(SetAttr(Model("VosHistoryResponse"),
                                                      "pagination", pagination.val),
                                              "data", ListV(items.val)))

\* the slots of SocialFeedResponse
SocialFeedSlots ==
    {"id", "url", "title", "excerpt", "author", "curator", "source", "image",
     "icon", "expiry_date", "date_published", "date_added"}

\* data.pop(key, None): the value, and the dict without the key
DictPop(kv, key) ==
    [val |-> IF HasKey(kv, key) THEN Get(kv, key) ELSE NoneV,
     rest |-> SelectSeq(kv, LAMBDA e : e.k # key)]

\* the loop over data.items(): setattr on a slots instance sets a slot and
\* raises AttributeError, swallowed here, for every other name but __class__,
\* for which it raises TypeError since no JSON value is a class
RECURSIVE SetKnownAttrs(_, _)
SetKnownAttrs(self, items) ==
    IF items = <<>> THEN Return(self)
    ELSE IF items[1].k = "__class__"
    THEN Raise(TypeError(<<"__class__ must be set to a class">>))
    ELSE SetKnownAttrs(
            IF items[1].k \in SocialFeedSlots
            THEN SetAttr(self, items[1].k, items[1].v) ELSE self,
            Tail(items))

\* SocialFeedResponse.from_raw, statement by statement: out is what the call
\* produced, data the dict it was given as the call left it.
\* The for loop and the return, reached with the three dates parsed
SocialFeed_setattrs(expiry, published, added, rest) ==
    [out |-> IF added.kind = "raise" THEN added
             ELSE SetKnownAttrs(
                    SetAttr(SetAttr(SetAttr(Model("SocialFeedResponse"),
                                            "expiry_date", expiry),
                                    "date_published", published),
                            "date_added", added.val),
                    rest),
     data |-> DictV(rest)]

\* self.date_added = self._dt_from_iso(data.pop("dateAdded"))
SocialFeed_date_added(expiry, published, rest) ==
    IF published.kind = "raise" THEN [out |-> published, data |-> DictV(rest)]
    ELSE IF ~HasKey(rest, "dateAdded")
    THEN [out |-> Raise(KeyError("dateAdded")), data |-> DictV(rest)]
    ELSE LET p3 == DictPop(rest, "dateAdded")
         IN  SocialFeed_setattrs(expiry, published.val, dt_from_iso(p3.val),
                                 p3.rest)

\* self.date_published = self._dt_from_iso_maybe(data.pop("datePublished", None))
SocialFeed_date_published(expiry, rest) ==
    IF expiry.kind = "raise" THEN [out |-> expiry, data |-> DictV(rest)]
    ELSE LET p2 == DictPop(rest, "datePublished")
         IN  SocialFeed_date_added(expiry.val, dt_from_iso_maybe(p2.val),
                                   p2.rest)

\* self.expiry_date = self._dt_from_iso_maybe(data.pop("expiryDate", None))
SocialFeedResponse_steps(data) ==
    IF data.t # "dict"
    THEN [out |-> Raise(AttributeError(<<"object has no attribute 'pop'">>)),
          data |-> data]
    ELSE LET p1 == DictPop(data.kv, "expiryDate")
         IN  SocialFeed_date_published(dt_from_iso_maybe(p1.val), p1.rest)

SocialFeedResponse_from_raw(data) == SocialFeedResponse_steps(data).out

\* [SocialFeedResponse.from_raw(feed) for feed in feeds]: the models, and the
\* feeds as the calls left them (the feeds after a failing one are untouched)
RECURSIVE FeedSteps(_, _, _)
FeedSteps(feeds, models, left) ==
    IF feeds = <<>> THEN [out |-> Return(models), data |-> left]
    ELSE LET feed == SocialFeedResponse_steps(feeds[1])
         IN  IF feed.out.kind = "raise"
             THEN [out |-> feed.out,
                   data |-> Append(left, feed.data) \o Tail(feeds)]
             ELSE FeedSteps(Tail(feeds), Append(models, feed.out.val),
                            Append(left, feed.data))

PaginatedSocialFeedResponse_steps(data) ==
    LET rawMeta == GetItem(data, "pagination")
    IN  IF rawMeta.kind = "raise" THEN [out |-> rawMeta, data |-> data]
        ELSE LET pagination == PaginationMeta_from_raw(rawMeta.val)
             IN  IF pagination.kind = "raise"
                 THEN [out |-> pagination, data |-> data]
                 ELSE LET feeds == GetItem(data, "data")
                      IN  IF feeds.kind = "raise" THEN [out |-> feeds, data |-> data]
                          ELSE IF feeds.val.t # "list"
                          THEN [out |-> Raise(TypeError(<<"object is not iterable">>)),
                                data |-> data]
                          ELSE LET items == FeedSteps(feeds.val.xs, <<>>, <<>>)
                                   after == DictV(DictSet(data.kv, "data",
                                                          ListV(items.data)))
                               IN  [out |-> IF items.out.kind = "raise" THEN items.out
                                            ELSE Return(SetAttr(SetAttr(
                                                   Model("PaginatedSocialFeedResponse"),
                                                   "pagination", pagination.val),
                                                   "data", ListV(items.out.val))),
                                    data |-> after]

PaginatedSocialFeedResponse_from_raw(data) ==
    PaginatedSocialFeedResponse_steps(data).out

\* the loop of ExchangePriceResponse.from_raw over the dataclass fields
RECURSIVE ExchangePriceFields(_, _, _)
ExchangePriceFields(self, data, attrs) ==
    IF attrs = <<>> THEN Return(self)
    ELSE IF attrs[1] = "identifier"
         THEN ExchangePriceFields(self, data, Tail(attrs))
    ELSE LET raw == GetItem(data, attrs[1])
         IN  IF raw.kind = "raise" THEN raw
             ELSE IF attrs[1] # "timestamp"
                  THEN ExchangePriceFields(SetAttr(self, attrs[1], raw.val),
                                           data, Tail(attrs))
             ELSE LET ts == IF raw.val.t = "int"
                            THEN dt_from_epoch(raw.val, TRUE)
                            ELSE dt_from_iso(raw.val)
                  IN  IF ts.kind = "raise" THEN ts
                      ELSE ExchangePriceFields(SetAttr(self, attrs[1], ts.val),
                                               data, Tail(attrs))

ExchangePriceResponse_from_raw(data) ==
    ExchangePriceFields(Model("ExchangePriceResponse"), data,
                        <<"id", "price", "volume", "timestamp", "identifier">>)

\* the loop of CompressedExchangePriceResponse.from_raw over data.items():
\* every key assigns all three attributes
RECURSIVE CompressedItems(_, _)
CompressedItems(self, items) ==
    IF items = <<>> THEN Return(self)
    ELSE LET first == GetIndex(items[1].v, 0)
         IN  IF first.kind = "raise" THEN first
             ELSE LET ts == dt_from_epoch(first.val, TRUE)
                  IN  IF ts.kind = "raise" THEN ts
                      ELSE LET price == GetIndex(items[1].v, 1)
                           IN  IF price.kind = "raise" THEN price
                               ELSE CompressedItems(
                                      SetAttr(SetAttr(SetAttr(self,
                                          "identifier", StrV(<<items[1].k>>)),
                                          "timestamp", ts.val),
                                          "price", price.val),
                                      Tail(items))

CompressedExchangePriceResponse_from_raw_mut(data) ==
    IF data.t # "dict"
    THEN Raise(AttributeError(<<"object has no attribute 'items'">>))
    ELSE LET r == CompressedItems(Model("CompressedExchangePriceResponse"),
                                  data.kv)
         IN  IF r.kind = "raise" \/ data.kv = <<>> THEN r
             ELSE Return(SetAttr(r.val, "identifier", StrV(<<data.kv[1].k>>)))
CompressedExchangePriceResponse_from_raw(data) ==
    IF data.t # "dict"
    THEN Raise(AttributeError(<<"object has no attribute 'items'">>))
    ELSE CompressedItems(Model("CompressedExchangePriceResponse"), data.kv)

\* int(x): an int as it is, a decimal text parsed
int(x) ==
    CASE x.t = "int" -> Return(x)
      [] x.t = "str" ->
            IF Len(x.s) = 1 /\ \E n \in 0..MaxParsedInt : ToString(n) = x.s[1]
            THEN Return(IntV(CHOOSE n \in 0..MaxParsedInt : ToString(n) = x.s[1]))
            ELSE Raise(ValueError(<<"invalid literal for int() with base 10">>))
      [] OTHER -> Raise(TypeError(<<"int() argument must be a string or a number">>))

TmsResponse_from_raw(data) ==
    LET raw == GetItem(data, "id")
    IN  IF raw.kind = "raise" THEN raw
        ELSE LET id == int(raw.val)
             IN  IF id.kind = "raise" THEN id
                 ELSE CopyItems(SetAttr(Model("TmsResponse"), "id", id.val),
                                data, <<"en", "pt">>)

----------------------------------------------------------------------------
(* models/base.py: localized dates *)

EnglishMonths ==
    <<"January", "February", "March", "April", "May", "June", "July",
      "August", "September", "October", "November", "December">>

PT_MONTH_MAPPING ==
    <<[k |-> "janeiro", v |-> "January"],
      [k |-> "fevereiro", v |-> "February"],
      [k |-> "marchar", v |-> "March"],
      [k |-> "abril", v |-> "April"],
      [k |-> "maio", v |-> "May"],
      [k |-> "junho", v |-> "June"],
      [k |-> "julho", v |-> "July"],
      [k |-> "agosto", v |-> "August"],
      [k |-> "setembro", v |-> "Semptember"],
      [k |-> "outubro", v |-> "October"],
      [k |-> "novembro", v |-> "November"],
      [k |-> "dezembro", v |-> "December"]>>

\* datetime.strptime(date, "%d %B %Y") of a text such as "5 July 2023"
strptime(date) ==
    LET bad == Raise(ValueError(<<"time data does not match format '%d %B %Y'">>))
    IN  IF Len(date) # 5 \/ date[2] # " " \/ date[4] # " " THEN bad
        ELSE LET d1 == Unpad(date[1], 1, 1, 31)
                 d2 == Unpad(date[1], 2, 1, 31)
                 d == IF d1 > 0 THEN d1 ELSE d2
                 mo == IF \E i \in 1..12 : EnglishMonths[i] = date[3]
                       THEN CHOOSE i \in 1..12 : EnglishMonths[i] = date[3]
                       ELSE 0
                 y == Unpad(date[5], 4, 1, 9999)
             IN  IF mo = 0 \/ ~ValidDate(y, mo, d) THEN bad
                 ELSE Return(DateTime(y, mo, d, 0, 0, 0, 0))

\* BaseResponse._dt_from_strp
dt_from_strp(date) ==
    IF date.t # "str"
    THEN Raise(TypeError(<<"strptime() argument 1 must be str">>))
    ELSE strptime(date.s)

\* date.split(" de "): the pieces between the separators
RECURSIVE SplitOn(_, _, _)
SplitOn(text, sep, piece) ==
    IF text = <<>> THEN <<piece>>
    ELSE IF text[1] = sep
         THEN <<piece>> \o SplitOn(Tail(text), sep, <<>>)
         ELSE SplitOn(Tail(text), sep, Append(piece, text[1]))

\* month.lower(), for the month names written with a capital
TitleCaseMonths ==
    <<[k |-> "Janeiro", v |-> "janeiro"], [k |-> "Fevereiro", v |-> "fevereiro"],
      [k |-> "Março", v |-> "março"], [k |-> "Abril", v |-> "abril"],
      [k |-> "Maio", v |-> "maio"], [k |-> "Junho", v |-> "junho"],
      [k |-> "Julho", v |-> "julho"], [k |-> "Agosto", v |-> "agosto"],
      [k |-> "Setembro", v |-> "setembro"], [k |-> "Outubro", v |-> "outubro"],
      [k |-> "Novembro", v |-> "novembro"], [k |-> "Dezembro", v |-> "dezembro"]>>

lower(text) ==
    IF Len(text) = 1 /\ HasKey(TitleCaseMonths, text[1])
    THEN <<Get(TitleCaseMonths, text[1])>>
    ELSE text

\* BaseResponse._dt_from_pt
dt_from_pt(date) ==
    IF date.t # "str"
    THEN Raise(AttributeError(<<"object has no attribute 'split'">>))
    ELSE LET parts == SplitOn(date.s, " de ", <<>>)
         IN  IF Len(parts) # 3
             THEN Raise(ValueError(<<"wrong number of values to unpack">>))
             ELSE LET month == lower(parts[2])
                  IN  IF Len(month) # 1
                      THEN Raise(KeyError("month"))
                      ELSE IF ~HasKey(PT_MONTH_MAPPING, month[1])
                      THEN Raise(KeyError(month[1]))
                      ELSE strptime(parts[1] \o <<" ">>
                                    \o <<Get(PT_MONTH_MAPPING, month[1])>>
                                    \o <<" ">> \o parts[3])

\* try: _dt_from_strp(date)  except ValueError: _dt_from_pt(date)
\* out is what the statement produced, calls the parsers it called, in order
LocalizedDateSteps_mut(date) ==
    LET pt == dt_from_pt(date)
    IN  IF pt.kind = "raise"
        THEN [out |-> dt_from_strp(date), calls |-> <<"_dt_from_pt", "_dt_from_strp">>]
        ELSE [out |-> pt, calls |-> <<"_dt_from_pt">>]
LocalizedDateSteps(date) ==
    LET en == dt_from_strp(date)
    IN  IF en.kind = "raise" /\ en.err.exc = "ValueError"
        THEN [out |-> dt_from_pt(date), calls |-> <<"_dt_from_strp", "_dt_from_pt">>]
        ELSE [out |-> en, calls |-> <<"_dt_from_strp">>]

LocalizedDate(date) == LocalizedDateSteps(date).out

\* a step of a decoder that stops it before any date parser is called
Stops(o) == [out |-> o, calls |-> <<>>]

TmsSearchResponse_steps(data) ==
    LET items == GetItem(data, "items")
    IN  IF items.kind = "raise" THEN Stops(items)
        ELSE LET rawDate == GetItem(data, "date")
             IN  IF rawDate.kind = "raise" THEN Stops(rawDate)
                 ELSE LET date == LocalizedDateSteps(rawDate.val)
                      IN  [out |-> IF date.out.kind = "raise" THEN date.out
                                   ELSE Return(SetAttr(SetAttr(
                                          Model("TmsSearchResponse"),
                                          "items", items.val),
                                          "date", date.out.val)),
                           calls |-> date.calls]

TmsSearchResponse_from_raw(data) == TmsSearchResponse_steps(data).out

TmsSearchFullResponse_steps(data) ==
    LET rawItems == GetItem(data, "items")
    IN  IF rawItems.kind = "raise" THEN Stops(rawItems)
        ELSE IF rawItems.val.t # "list"
             THEN Stops(Raise(TypeError(<<"object is not iterable">>)))
        ELSE LET items == MapM(TmsResponse_from_raw, rawItems.val.xs, <<>>)
             IN  IF items.kind = "raise" THEN Stops(items)
                 ELSE LET rawDate == GetItem(data, "date")
                      IN  IF rawDate.kind = "raise" THEN Stops(rawDate)
                          ELSE LET date == LocalizedDateSteps(rawDate.val)
                               IN  [out |-> IF date.out.kind = "raise" THEN date.out
                                            ELSE Return(SetAttr(SetAttr(
                                                   Model("TmsSearchFullResponse"),
                                                   "items", ListV(items.val)),
                                                   "date", date.out.val)),
                                    calls |-> date.calls]

TmsSearchFullResponse_from_raw(data) == TmsSearchFullResponse_steps(data).out

----------------------------------------------------------------------------
(* models/realtime_wiki.py *)

\* _dt_from_epoch(x) if x else x
EpochOrFalsy(x) == IF Truthy(x) THEN dt_from_epoch(x, FALSE) ELSE Return(x)

RealtimePriceResponse_from_raw(data) ==
    LET highTime == GetItem(data, "highTime")
        lowTime == GetItem(data, "lowTime")
        high == GetItem(data, "high")
        low == GetItem(data, "low")
    IN  IF highTime.kind = "raise" THEN highTime
        ELSE IF lowTime.kind = "raise" THEN lowTime
        ELSE IF high.kind = "raise" THEN high
        ELSE IF low.kind = "raise" THEN low
        ELSE LET ht == EpochOrFalsy(highTime.val)
                 lt == EpochOrFalsy(lowTime.val)
             IN  IF ht.kind = "raise" THEN ht
                 ELSE IF lt.kind = "raise" THEN lt
                 ELSE Return(SetAttr(SetAttr(SetAttr(SetAttr(
                        Model("RealtimePriceResponse"),
                        "high", high.val), "low", low.val),
                        "high_time", ht.val), "low_time", lt.val))

\* self.<attr> = data[<key>], pair by pair
RECURSIVE CopyRenamed(_, _, _)
CopyRenamed(self, data, pairs) ==
    IF pairs = <<>> THEN Return(self)
    ELSE LET item == GetItem(data, pairs[1].v)
         IN  IF item.kind = "raise" THEN item
             ELSE CopyRenamed(SetAttr(self, pairs[1].k, item.val), data,
                              Tail(pairs))

AveragePriceResponse_from_raw(data) ==
    CopyRenamed(Model("AveragePriceResponse"), data,
                <<[k |-> "high", v |-> "avgHighPrice"],
                  [k |-> "low", v |-> "avgLowPrice"],
                  [k |-> "high_volume", v |-> "highPriceVolume"],
                  [k |-> "low_volume", v |-> "lowPriceVolume"]>>)

\* MappingResponse.from_raw: data.get for the two alch values, data[attr] for
\* every other field
MappingResponse_from_raw(data) ==
    IF data.t # "dict"
    THEN Raise(AttributeError(<<"object has no attribute 'get'">>))
    ELSE CopyItems(SetAttr(SetAttr(Model("MappingResponse"),
                                   "high_alch", DictGet(data.kv, "highalch")),
                           "low_alch", DictGet(data.kv, "lowalch")),
                   data, <<"id", "name", "examine", "members", "value", "icon">>)

\* the loop over an id-keyed object: decode the value, then price.id = int(key)
RECURSIVE IdKeyed(_, _, _)
IdKeyed(F(_), items, acc) ==
    IF items = <<>> THEN Return(acc)
    ELSE LET price == F(items[1].v)
         IN  IF price.kind = "raise" THEN price
             ELSE LET id == int(StrV(<<items[1].k>>))
                  IN  IF id.kind = "raise" THEN id
                      ELSE IdKeyed(F, Tail(items),
                                   Append(acc, SetAttr(price.val, "id", id.val)))

\* data["data"].items()
DataItems(data) ==
    LET inner == GetItem(data, "data")
    IN  IF inner.kind = "raise" THEN inner
        ELSE IF inner.val.t # "dict"
             THEN Raise(AttributeError(<<"object has no attribute 'items'">>))
        ELSE Return(inner.val.kv)

TimeFilteredPriceResponse_from_raw(data) ==
    LET raw == GetItem(data, "timestamp")
    IN  IF raw.kind = "raise" THEN raw
        ELSE LET ts == dt_from_epoch(raw.val, FALSE)
             IN  IF ts.kind = "raise" THEN ts
                 ELSE LET items == DataItems(data)
                      IN  IF items.kind = "raise" THEN items
                          ELSE LET prices == IdKeyed(AveragePriceResponse_from_raw,
                                                     items.val, <<>>)
                               IN  IF prices.kind = "raise" THEN prices
                                   ELSE Return(SetAttr(SetAttr(
                                          Model("TimeFilteredPriceResponse"),
                                          "timestamp", ts.val),
                                          "data", ListV(prices.val)))

TimeSeriesPriceResponse_from_raw(data) ==
    LET raw == GetItem(data, "timestamp")
    IN  IF raw.kind = "raise" THEN raw
        ELSE LET ts == dt_from_epoch(raw.val, FALSE)
             IN  IF ts.kind = "raise" THEN ts
                 ELSE LET price == AveragePriceResponse_from_raw(data)
                      IN  IF price.kind = "raise" THEN price
                          ELSE Return(
                                 [t |-> "model", cls |-> "TimeSeriesPriceResponse",
                                  attrs |-> <<[k |-> "timestamp", v |-> ts.val]>>
                                            \o price.val.attrs])

----------------------------------------------------------------------------
(* routes.py: the text of a compiled route, errors.py: HttpError *)

RECURSIVE ParamsStr(_, _)
ParamsStr(items, params) ==
    IF items = <<>> THEN params
    ELSE ParamsStr(Tail(items),
                   params \o (IF params # <<>> THEN <<"&">> ELSE <<"?">>)
                          \o <<items[1].k, "=">> \o PyStr(items[1].v))

CompiledRoute_get_params_str_mut(c) == ParamsStr(c.params, <<"?">>)
CompiledRoute_get_params_str(c) == ParamsStr(c.params, <<>>)

CompiledRoute_pretty(c) ==
    BaseUrlValue(c.base) \o c.uri \o CompiledRoute_get_params_str(c)

HttpError(route, message) ==
    [exc |-> "HttpError",
     msg |-> <<"HTTP exception in ">> \o CompiledRoute_pretty(route)
             \o <<": ">> \o message]

----------------------------------------------------------------------------
(* services/weird_gloop.py: each handler up to its await.  A handler either
   raises, or suspends in self._fetch(route) with the route it has built. *)

Await(route) == [kind |-> "await", route |-> route]

\* "|".join(str(x) for x in xs)
PipeJoin_mut(xs) == JoinWith([i \in 1..Len(xs) |-> PyStr(xs[i])], <<",">>)
PipeJoin(xs) == JoinWith([i \in 1..Len(xs) |-> PyStr(xs[i])], <<"|">>)

\* params[key] = value if cond
SetIf(cond, params, key, value) ==
    IF cond THEN DictSet(params, key, value) ELSE params

\* WeirdGloopService._set_generic_tms_params: raises or leaves params updated
set_generic_tms_params_mut(start_at, end_at, count, params) ==
    LET p1 == SetIf(Truthy(start_at), params, "start",
                    IF start_at = NoneV THEN NoneV ELSE StrV(isoformat(start_at)))
        p2 == SetIf(Truthy(end_at), p1, "end",
                    IF end_at = NoneV THEN NoneV ELSE StrV(isoformat(end_at)))
    IN  Return(SetIf(Truthy(count), p2, "number", count))
set_generic_tms_params(start_at, end_at, count, params) ==
    IF count # NoneV /\ end_at # NoneV
    THEN Raise(ConflictingArgumentError(<<<<"count">>, <<"end_at">>>>))
    ELSE LET p1 == SetIf(Truthy(start_at), params, "start",
                         IF start_at = NoneV THEN NoneV
                         ELSE StrV(isoformat(start_at)))
             p2 == SetIf(Truthy(end_at), p1, "end",
                         IF end_at = NoneV THEN NoneV
                         ELSE StrV(isoformat(end_at)))
         IN  Return(SetIf(Truthy(count), p2, "number", count))

\* WeirdGloopService._set_price_params_and_fetch
set_price_params_and_fetch_mut(game, time_filter, id, name, locale, params) ==
    LET p1 == SetIf(Truthy(id), params, "id", id)
        p2 == SetIf(Truthy(name), p1, "name", name)
        p3 == SetIf(Truthy(locale), p2, "lang",
                    IF locale = NoneV THEN NoneV ELSE StrV(locale.value))
    IN  Await(CompiledRoute_with_params(
              Route_compile(HISTORICAL_EXCHANGE_PRICE,
                            <<StrV(game.value), StrV(time_filter.value)>>).val,
              p3))
set_price_params_and_fetch(game, time_filter, id, name, locale, params) ==
    IF ~Truthy(id) /\ ~Truthy(name)
    THEN Raise(MissingArgumentError(<<"You must specify at least 1 id or name.">>))
    ELSE LET p1 == SetIf(Truthy(id), params, "id", id)
             p2 == SetIf(Truthy(name), p1, "name", name)
             p3 == SetIf(Truthy(locale), p2, "lang",
                         IF locale = NoneV THEN NoneV ELSE StrV(locale.value))
         IN  Await(CompiledRoute_with_params(
                   Route_compile(HISTORICAL_EXCHANGE_PRICE,
                                 <<StrV(game.value), StrV(time_filter.value)>>).val,
                   p3))

\* WeirdGloopService._set_tms_name_params_and_fetch
set_tms_name_params_and_fetch_mut(names, locale, start_at, end_at, count, params) ==
    IF names = <<>>
    THEN Raise(MissingArgumentError(<<"please provide one or more names.">>))
    ELSE LET p1 == DictSet(params, "name", StrV(PipeJoin(names)))
             p3 == set_generic_tms_params(start_at, end_at, count, p1)
         IN  IF p3.kind = "raise" THEN p3
             ELSE Await(CompiledRoute_with_params(
                        Route_compile(TMS_SEARCH, <<>>).val, p3.val))
set_tms_name_params_and_fetch(names, locale, start_at, end_at, count, params) ==
    IF names = <<>>
    THEN Raise(MissingArgumentError(<<"please provide one or more names.">>))
    ELSE LET p1 == DictSet(params, "name", StrV(PipeJoin(names)))
             p2 == SetIf(Truthy(locale), p1, "lang",
                         IF locale = NoneV THEN NoneV ELSE StrV(locale.value))
             p3 == set_generic_tms_params(start_at, end_at, count, p2)
         IN  IF p3.kind = "raise" THEN p3
             ELSE Await(CompiledRoute_with_params(
                        Route_compile(TMS_SEARCH, <<>>).val, p3.val))

\* WeirdGloopService._set_tms_id_params_and_fetch
set_tms_id_params_and_fetch(ids, start_at, end_at, count, params) ==
    IF ids = <<>>
    THEN Raise(MissingArgumentError(<<"please provide one or more ids.">>))
    ELSE LET p1 == DictSet(params, "id", StrV(PipeJoin(ids)))
             p2 == SetIf(~Truthy(DictGet(p1, "lang")), p1, "lang", StrV(<<"id">>))
             p3 == set_generic_tms_params(start_at, end_at, count, p2)
         IN  IF p3.kind = "raise" THEN p3
             ELSE Await(CompiledRoute_with_params(
                        Route_compile(TMS_SEARCH, <<>>).val, p3.val))

\* the elements of xs that are instances of the given type
OfType(xs, type) == SelectSeq(xs, LAMBDA x : x.t = type)

\* WeirdGloopService.get_latest_exchange_price, up to the await
get_latest_exchange_price(game, ids_or_names, locale) ==
    IF ids_or_names = <<>>
    THEN Raise(MissingArgumentError(<<"You must specify at least 1 id or name.">>))
    ELSE LET ids == PipeJoin(OfType(ids_or_names, "int"))
             names == PipeJoin(OfType(ids_or_names, "str"))
             p1 == SetIf(ids # <<>>, <<>>, "id", StrV(ids))
             p2 == SetIf(names # <<>>, p1, "name", StrV(names))
             p3 == SetIf(Truthy(locale), p2, "lang",
                         IF locale = NoneV THEN NoneV ELSE StrV(locale.value))
         IN  Await(CompiledRoute_with_params(
                   Route_compile(LATEST_EXCHANGE_PRICE, <<StrV(game.value)>>).val,
                   p3))

\* get_vos_history, get_social_feed: one param, the page
get_vos_history(page) ==
    Await(CompiledRoute_with_params(Route_compile(VOS_HISTORY, <<>>).val,
                                    <<[k |-> "page", v |-> page]>>))

get_social_feed(page) ==
    Await(CompiledRoute_with_params(Route_compile(SOCIAL_FEED, <<>>).val,
                                    <<[k |-> "page", v |-> page]>>))

----------------------------------------------------------------------------
(* services/realtime_wiki.py: each handler up to its await *)

get_price(game, id) ==
    Await(CompiledRoute_with_params(
          Route_compile(REALTIME_PRICE, <<StrV(game.value)>>).val,
          SetIf(Truthy(id), <<>>, "id", id)))

\* epoch - (epoch % 300)
RoundTo300_mut(epoch) == (epoch + 150) - ((epoch + 150) % 300)
RoundTo300(epoch) == epoch - (epoch % 300)

get_avg_price(game, time_filter, timestamp) ==
    Await(CompiledRoute_with_params(
          Route_compile(REALTIME_AVG_PRICE,
                        <<StrV(game.value), StrV(time_filter.value)>>).val,
          SetIf(Truthy(timestamp), <<>>, "timestamp",
                IF timestamp = NoneV THEN NoneV
                ELSE IntV(RoundTo300(TimestampSeconds(timestamp))))))

get_avg_price_by_id(id, game, timestep) ==
    Await(CompiledRoute_with_params(
          Route_compile(REALTIME_TIMESERIES, <<StrV(game.value)>>).val,
          <<[k |-> "id", v |-> id],
            [k |-> "timestep", v |-> StrV(timestep.value)]>>))

----------------------------------------------------------------------------
(* services: each handler from the value its await produced to its return *)

\* result.Err(...)(model), result.Ok(...)(value): an exception raised while
\* the argument is evaluated leaves the handler before the Result is made
ErrOf(o) == IF o.kind = "raise" THEN o ELSE Return(Err(o.val))
OkOf(o) == IF o.kind = "raise" THEN o ELSE Return(Ok(o.val))
OkOfList(o) == IF o.kind = "raise" THEN o ELSE Return(Ok(ListV(o.val)))

\* the items of data.items()
Items(data) ==
    IF data.t # "dict"
    THEN Raise(AttributeError(<<"object has no attribute 'items'">>))
    ELSE Return(data.kv)

\* for key, value in items: response = from_raw(value); response.identifier = key
RECURSIVE LatestPrices(_, _)
LatestPrices(items, prices) ==
    IF items = <<>> THEN Return(prices)
    ELSE LET response == ExchangePriceResponse_from_raw(items[1].v)
         IN  IF response.kind = "raise" THEN response
             ELSE LatestPrices(Tail(items),
                    Append(prices, SetAttr(response.val, "identifier",
                                           StrV(<<items[1].k>>))))

\* for x in value, of a JSON value
Iterate(value) ==
    CASE value.t = "list" -> Return(value.xs)
      [] value.t = "dict" ->
            Return([i \in 1..Len(value.kv) |-> StrV(<<value.kv[i].k>>)])
      [] OTHER -> Raise(TypeError(<<"object is not iterable">>))

\* the nested loop of get_historical_exchange_price
RECURSIVE HistoricalPrices(_, _)
HistoricalPrices(items, prices) ==
    IF items = <<>> THEN Return(prices)
    ELSE LET value == Iterate(items[1].v)
         IN  IF value.kind = "raise" THEN value
             ELSE LET decoded ==
                        MapM(LAMBDA price :
                               LET response == ExchangePriceResponse_from_raw(price)
                               IN  IF response.kind = "raise" THEN response
                                   ELSE Return(SetAttr(response.val, "identifier",
                                                       StrV(<<items[1].k>>))),
                             value.val, <<>>)
                  IN  IF decoded.kind = "raise" THEN decoded
                      ELSE HistoricalPrices(Tail(items), prices \o decoded.val)

\* the loop of get_compressed_historical_exchange_price: from_raw({key: pair})
RECURSIVE CompressedPrices(_, _)
CompressedPrices(items, prices) ==
    IF items = <<>> THEN Return(prices)
    ELSE LET value == Iterate(items[1].v)
         IN  IF value.kind = "raise" THEN value
             ELSE LET decoded ==
                        MapM(LAMBDA pair :
                               CompressedExchangePriceResponse_from_raw(
                                   DictV(<<[k |-> items[1].k, v |-> pair]>>)),
                             value.val, <<>>)
                  IN  IF decoded.kind = "raise" THEN decoded
                      ELSE CompressedPrices(Tail(items), prices \o decoded.val)

\* the tail shared by the handlers that loop over data.items()
KeyedReturn(Loop(_, _), data) ==
    IF InData("error", data) THEN ErrOf(ErrorResponse_from_raw(data))
    ELSE LET items == Items(data)
         IN  IF items.kind = "raise" THEN items
             ELSE OkOfList(Loop(items.val, <<>>))

get_latest_exchange_price_return(data) == KeyedReturn(LatestPrices, data)
get_historical_exchange_price_return(data) == KeyedReturn(HistoricalPrices, data)
get_compressed_historical_exchange_price_return(data) ==
    KeyedReturn(CompressedPrices, data)

AssertionError == [exc |-> "AssertionError", msg |-> <<>>]

\* the tail of the three search handlers: assert isinstance(buffer, list)
SearchReturn(F(_), data) ==
    IF InData("error", data) THEN ErrOf(ErrorResponse_from_raw(data))
    ELSE IF data.t # "list" THEN Raise(AssertionError)
    ELSE OkOfList(MapM(F, data.xs, <<>>))

search_tms_by_name_return(data) == SearchReturn(TmsSearchResponse_from_raw, data)
search_tms_by_id_return(data) == SearchReturn(TmsSearchResponse_from_raw, data)
search_tms_by_id_full_return(data) ==
    SearchReturn(TmsSearchFullResponse_from_raw, data)

\* the paginated handlers return the decoded page itself, with no error check
get_vos_history_return(data) == VosHistoryResponse_from_raw(data)
get_social_feed_return(data) == PaginatedSocialFeedResponse_from_raw(data)

get_price_return(data) ==
    IF InData("error", data) THEN ErrOf(ErrorResponse_from_raw(data))
    ELSE LET items == DataItems(data)
         IN  IF items.kind = "raise" THEN items
             ELSE OkOfList(IdKeyed(RealtimePriceResponse_from_raw, items.val, <<>>))

get_avg_price_return(data) ==
    IF InData("error", data) THEN ErrOf(ErrorResponse_from_raw(data))
    ELSE OkOf(TimeFilteredPriceResponse_from_raw(data))

get_avg_price_by_id_return(id, data) ==
    IF InData("error", data) THEN ErrOf(ErrorResponse_from_raw(data))
    ELSE LET items == GetItem(data, "data")
         IN  IF items.kind = "raise" THEN items
             ELSE LET xs == Iterate(items.val)
                  IN  IF xs.kind = "raise" THEN xs
                      ELSE OkOfList(
                             MapM(LAMBDA item :
                                    LET price == TimeSeriesPriceResponse_from_raw(item)
                                    IN  IF price.kind = "raise" THEN price
                                        ELSE Return(SetAttr(price.val, "id", id)),
                                  xs.val, <<>>))

----------------------------------------------------------------------------
(* JSON bodies the transport can answer with *)

KV(k, v) == [k |-> k, v |-> v]

IsoText == <<"2023", "-", "07", "-", "05", "T", "12", ":", "00", ":", "00", "Z">>

\* an error body with only the "error" key, and one with "success" as well
ErrorOnlyBody == DictV(<<KV("error", StrV(<<"no items found">>))>>)
ErrorBody ==
    DictV(<<KV("success", BoolV(FALSE)),
            KV("error", StrV(<<"Item(s) not found in the database">>))>>)

PriceEntry(timestamp) ==
    DictV(<<KV("id", StrV(<<"4151">>)), KV("timestamp", timestamp),
            KV("price", IntV(70000)), KV("volume", NoneV)>>)

\* an id-keyed object whose value has no "id" of its own
IdKeyedBody ==
    DictV(<<KV("4151", DictV(<<KV("price", IntV(1200)),
                               KV("timestamp", IntV(1690000000)),
                               KV("volume", IntV(10))>>))>>)
LatestBody == DictV(<<KV("Abyssal whip", PriceEntry(StrV(IsoText)))>>)
HistoricalBody ==
    DictV(<<KV("4151", ListV(<<PriceEntry(IntV(1690000000)),
                               PriceEntry(IntV(1690086400))>>))>>)
CompressedBody ==
    DictV(<<KV("4151", ListV(<<ListV(<<IntV(1690000000), IntV(70000)>>)>>))>>)

\* price histories of two items, two entries under the first key and one
\* under the second
PricedEntry(timestamp, price) ==
    DictV(<<KV("id", StrV(<<"4151">>)), KV("timestamp", timestamp),
            KV("price", IntV(price)), KV("volume", IntV(10))>>)
HistoricalTwoKeyBody ==
    DictV(<<KV("4151", ListV(<<PricedEntry(IntV(1690000000), 70000),
                               PricedEntry(IntV(1690086400), 70100)>>)),
            KV("2", ListV(<<PricedEntry(IntV(1690000000), 150)>>))>>)
CompressedTwoKeyBody ==
    DictV(<<KV("4151", ListV(<<ListV(<<IntV(1690000000), IntV(70000)>>),
                               ListV(<<IntV(1690086400), IntV(70100)>>)>>)),
            KV("2", ListV(<<ListV(<<IntV(1690000000), IntV(150)>>)>>))>>)

SearchBody ==
    ListV(<<DictV(<<KV("date", StrV(<<"5", " ", "July", " ", "2023">>)),
                    KV("items", ListV(<<StrV(<<"Uncharted island map">>)>>))>>)>>)
SearchBodyPt ==
    ListV(<<DictV(<<KV("date", StrV(<<"5", " de ", "julho", " de ", "2023">>)),
                    KV("items", ListV(<<StrV(<<"Mapa de ilha inexplorada">>)>>))>>)>>)
SearchFullBody ==
    ListV(<<DictV(<<KV("date", StrV(<<"5", " ", "July", " ", "2023">>)),
                    KV("items", ListV(<<
                        DictV(<<KV("id", StrV(<<"42274">>)),
                                KV("en", StrV(<<"Uncharted island map">>)),
                                KV("pt", StrV(<<"Mapa de ilha inexplorada">>))>>)>>))>>)>>)

PaginationBody ==
    DictV(<<KV("has_more", BoolV(TRUE)), KV("total_pages", IntV(2)),
            KV("total_items", IntV(11))>>)
VosHistoryBody ==
    DictV(<<KV("pagination", PaginationBody),
            KV("data", ListV(<<
                DictV(<<KV("timestamp", StrV(IsoText)),
                        KV("district1", StrV(<<"Amlodd">>)),
                        KV("district2", StrV(<<"Hefin">>))>>)>>))>>)
SocialFeedBody ==
    DictV(<<KV("pagination", PaginationBody),
            KV("data", ListV(<<
                DictV(<<KV("id", IntV(7)), KV("title", StrV(<<"News">>)),
                        KV("expiryDate", NoneV),
                        KV("dateAdded", StrV(IsoText))>>)>>))>>)

RealtimeBody ==
    DictV(<<KV("data", DictV(<<
        KV("2", DictV(<<KV("high", IntV(100)), KV("highTime", IntV(1690000000)),
                        KV("low", NoneV), KV("lowTime", NoneV)>>))>>))>>)
AverageEntry ==
    <<KV("avgHighPrice", IntV(100)), KV("highPriceVolume", IntV(3)),
      KV("avgLowPrice", IntV(90)), KV("lowPriceVolume", IntV(4))>>
AverageBody ==
    DictV(<<KV("data", DictV(<<KV("2", DictV(AverageEntry))>>)),
            KV("timestamp", IntV(1690000200))>>)
TimeSeriesBody ==
    DictV(<<KV("data", ListV(<<
        DictV(<<KV("timestamp", IntV(1690000200))>> \o AverageEntry)>>))>>)

\* the bodies each endpoint is given in this model
Bodies(op) ==
    {ErrorOnlyBody, ErrorBody} \cup
    CASE op = "get_latest_exchange_price" ->
            {LatestBody, IdKeyedBody, DictV(<<>>)}
      [] op = "get_historical_exchange_price" ->
            {HistoricalBody, HistoricalTwoKeyBody}
      [] op = "get_compressed_historical_exchange_price" ->
            {CompressedBody, CompressedTwoKeyBody}
      [] op = "search_tms_by_name" -> {SearchBody, SearchBodyPt, ListV(<<>>)}
      [] op = "search_tms_by_id" -> {SearchBody}
      [] op = "search_tms_by_id_full" -> {SearchFullBody}
      [] op = "get_vos_history" -> {VosHistoryBody}
      [] op = "get_social_feed" -> {SocialFeedBody}
      [] op = "get_price" -> {RealtimeBody}
      [] op = "get_avg_price" -> {AverageBody}
      [] op = "get_avg_price_by_id" -> {TimeSeriesBody}
      [] OTHER -> {}

\* texts of a response whose status is not ok
FailureTexts == {<<"Internal Server Error">>}

----------------------------------------------------------------------------
(* The services as a state machine: a handler runs from the caller's call to
   its await, the transport answers, the handler runs to its end *)

\* arguments the callers pass
Ids == {NoneV, IntV(0), IntV(4151)}
Names == {NoneV, StrV(<<>>), StrV(<<"Abyssal whip">>)}
Locales == {NoneV} \cup Locale
Tokens == {IntV(0), IntV(4151), StrV(<<>>), StrV(<<"Abyssal whip">>)}
SearchNames == {StrV(<<>>), StrV(<<"Uncharted island map">>)}
SearchIds == {IntV(0), IntV(42274)}
Times == {NoneV, DateTime(2023, 7, 5, 12, 3, 20, 0)}
Timestamps ==
    Times \cup {DateTime(2023, 7, 5, 12, 5, 0, 0),
                DateTime(2023, 7, 5, 12, 4, 59, 999999)}
Counts == {NoneV, IntV(0), IntV(5)}
Pages == {IntV(1), IntV(2)}

\* the handler c ran up to o: an exception, or the await of self._fetch(route)
Begin(c, o) ==
    /\ pc = "idle"
    /\ call' = c
    /\ reply' = [kind |-> "none"]
    /\ IF o.kind = "raise"
       THEN /\ pc' = "done"
            /\ outcome' = o
            /\ sent' = [made |-> FALSE]
            /\ fetches' = 0
       ELSE /\ pc' = "fetching"
            /\ outcome' = NoOutcome
            /\ sent' = o.route
            /\ fetches' = 1
    /\ UNCHANGED <<resultVars, routeVars, decodeVars, taskVars>>

GetLatestExchangePrice(game, ids_or_names, locale) ==
    Begin([op |-> "get_latest_exchange_price", game |-> game,
           ids_or_names |-> ids_or_names, locale |-> locale],
          get_latest_exchange_price(game, ids_or_names, locale))

GetHistoricalExchangePrice(game, time_filter, id, name, locale) ==
    Begin([op |-> "get_historical_exchange_price", game |-> game,
           time_filter |-> time_filter, id |-> id, name |-> name,
           locale |-> locale],
          set_price_params_and_fetch(game, time_filter, id, name, locale, <<>>))

GetCompressedHistoricalExchangePrice(game, time_filter, id, name, locale) ==
    Begin([op |-> "get_compressed_historical_exchange_price", game |-> game,
           time_filter |-> time_filter, id |-> id, name |-> name,
           locale |-> locale],
          set_price_params_and_fetch(game, time_filter, id, name, locale,
                                     <<KV("compress", StrV(<<"true">>))>>))

SearchTmsByName(names, locale, start_at, end_at, count) ==
    Begin([op |-> "search_tms_by_name", names |-> names, locale |-> locale,
           start_at |-> start_at, end_at |-> end_at, count |-> count],
          set_tms_name_params_and_fetch(names, locale, start_at, end_at, count,
                                        <<>>))

SearchTmsById(ids, start_at, end_at, count) ==
    Begin([op |-> "search_tms_by_id", ids |-> ids,
           start_at |-> start_at, end_at |-> end_at, count |-> count],
          set_tms_id_params_and_fetch(ids, start_at, end_at, count, <<>>))

SearchTmsByIdFull(ids, start_at, end_at, count) ==
    Begin([op |-> "search_tms_by_id_full", ids |-> ids,
           start_at |-> start_at, end_at |-> end_at, count |-> count],
          set_tms_id_params_and_fetch(ids, start_at, end_at, count,
                                      <<KV("lang", StrV(<<"full">>))>>))

GetVosHistory(page) ==
    Begin([op |-> "get_vos_history", page |-> page], get_vos_history(page))

GetSocialFeed(page) ==
    Begin([op |-> "get_social_feed", page |-> page], get_social_feed(page))

GetPrice(game, id) ==
    Begin([op |-> "get_price", game |-> game, id |-> id], get_price(game, id))

GetAvgPrice(game, time_filter, timestamp) ==
    Begin([op |-> "get_avg_price", game |-> game, time_filter |-> time_filter,
           timestamp |-> timestamp],
          get_avg_price(game, time_filter, timestamp))

GetAvgPriceById(id, game, timestep) ==
    Begin([op |-> "get_avg_price_by_id", id |-> id, game |-> game,
           timestep |-> timestep],
          get_avg_price_by_id(id, game, timestep))

\* the rest of the handler c, resumed with the body its await produced
Resume(c, data) ==
    CASE c.op = "get_latest_exchange_price" ->
            get_latest_exchange_price_return(data)
      [] c.op = "get_historical_exchange_price" ->
            get_historical_exchange_price_return(data)
      [] c.op = "get_compressed_historical_exchange_price" ->
            get_compressed_historical_exchange_price_return(data)
      [] c.op = "search_tms_by_name" -> search_tms_by_name_return(data)
      [] c.op = "search_tms_by_id" -> search_tms_by_id_return(data)
      [] c.op = "search_tms_by_id_full" -> search_tms_by_id_full_return(data)
      [] c.op = "get_vos_history" -> get_vos_history_return(data)
      [] c.op = "get_social_feed" -> get_social_feed_return(data)
      [] c.op = "get_price" -> get_price_return(data)
      [] c.op = "get_avg_price" -> get_avg_price_return(data)
      [] c.op = "get_avg_price_by_id" -> get_avg_price_by_id_return(c.id, data)

\* RestClient.fetch returns resp.json(): the handler resumes and ends
FetchReturns(data) ==
    /\ pc = "fetching"
    /\ reply' = [kind |-> "json", data |-> data]
    /\ outcome' = Resume(call, data)
    /\ pc' = "done"
    /\ UNCHANGED <<call, sent, fetches, resultVars, routeVars, decodeVars, taskVars>>

\* RestClient.fetch raises HttpError: it leaves the handler as it is
FetchRaises_mut(text) ==
    /\ pc = "fetching"
    /\ fetches <= 1
    /\ reply' = [kind |-> "failure", text |-> text]
    /\ fetches' = fetches + 1
    /\ UNCHANGED <<pc, outcome, call, sent, resultVars, routeVars, decodeVars, taskVars>>
FetchRaises(text) ==
    /\ pc = "fetching"
    /\ reply' = [kind |-> "failure", text |-> text]
    /\ outcome' = Raise(HttpError(sent, text))
    /\ pc' = "done"
    /\ UNCHANGED <<call, sent, fetches, resultVars, routeVars, decodeVars, taskVars>>

\* the caller has its outcome; the service is ready for the next call
Finish ==
    /\ pc = "done"
    /\ pc' = "idle"
    /\ call' = [op |-> "none"]
    /\ sent' = [made |-> FALSE]
    /\ fetches' = 0
    /\ reply' = [kind |-> "none"]
    /\ outcome' = NoOutcome
    /\ UNCHANGED <<resultVars, routeVars, decodeVars, taskVars>>

Init == ResultIdle /\ RouteIdle /\ FacadeIdle /\ TaskIdle /\ DecodeIdle

Next ==
    \/ \E game \in WgGameType, ids_or_names \in SeqsUpTo(Tokens, MaxTokens),
          locale \in Locales :
          GetLatestExchangePrice(game, ids_or_names, locale)
    \/ \E game \in WgGameType, time_filter \in WgTimeFilter, id \in Ids,
          name \in Names, locale \in Locales :
          GetHistoricalExchangePrice(game, time_filter, id, name, locale)
    \/ \E game \in WgGameType, time_filter \in WgTimeFilter, id \in Ids,
          name \in Names, locale \in Locales :
          GetCompressedHistoricalExchangePrice(game, time_filter, id, name, locale)
    \/ \E names \in SeqsUpTo(SearchNames, MaxTokens), locale \in Locales,
          start_at \in Times, end_at \in Times, count \in Counts :
          SearchTmsByName(names, locale, start_at, end_at, count)
    \/ \E ids \in SeqsUpTo(SearchIds, MaxTokens), start_at \in Times,
          end_at \in Times, count \in Counts :
          SearchTmsById(ids, start_at, end_at, count)
    \/ \E ids \in SeqsUpTo(SearchIds, MaxTokens), start_at \in Times,
          end_at \in Times, count \in Counts :
          SearchTmsByIdFull(ids, start_at, end_at, count)
    \/ \E page \in Pages : GetVosHistory(page)
    \/ \E page \in Pages : GetSocialFeed(page)
    \/ \E game \in RtGameType, id \in Ids : GetPrice(game, id)
    \/ \E game \in TimeSeriesGameType, time_filter \in RtTimeFilter,
          timestamp \in Timestamps : GetAvgPrice(game, time_filter, timestamp)
    \/ \E id \in Ids \ {NoneV}, game \in TimeSeriesGameType,
          timestep \in TimeSeriesFilter : GetAvgPriceById(id, game, timestep)
    \/ \E data \in Bodies(call.op) : FetchReturns(data)
    \/ \E text \in FailureTexts : FetchRaises(text)
    \/ Finish

Spec == Init /\ [][Next]_vars

----------------------------------------------------------------------------
(* Properties of the services *)

ErrorDetectingOps ==
    {"get_latest_exchange_price", "get_historical_exchange_price",
     "get_compressed_historical_exchange_price", "search_tms_by_name",
     "search_tms_by_id", "search_tms_by_id_full", "get_price",
     "get_avg_price", "get_avg_price_by_id"}

SearchOps == {"search_tms_by_name", "search_tms_by_id", "search_tms_by_id_full"}
PaginatedOps == {"get_vos_history", "get_social_feed"}

\* the handler has ended after the transport answered with this JSON body
EndedWith(data) == pc = "done" /\ reply = [kind |-> "json", data |-> data]

\* the outcome is a returned Err whose error model carries this message
ReturnsErrWithMessage(o, message) ==
    /\ o.kind = "return"
    /\ o.val.cls = "Err"
    /\ ~is_ok(o.val)
    /\ LET e == unwrap_err(o.val).val
       IN  /\ e.t = "model"
           /\ e.cls = "ErrorResponse"
           /\ DictGet(e.attrs, "error") = message

\* C1: every operation with error detection, when the transport returns the
\* JSON object {"error": "no items found"}, returns an Err that wraps an error
\* model whose message is "no items found", and is_ok is false.
ErrorOnlyBodyReturnsErr ==
    (call.op \in ErrorDetectingOps /\ EndedWith(ErrorOnlyBody))
        => ReturnsErrWithMessage(outcome, StrV(<<"no items found">>))

\* the call names no item to look up
NoTargetGiven(c) ==
    CASE c.op \in {"get_historical_exchange_price",
                   "get_compressed_historical_exchange_price"} ->
            c.id = NoneV /\ c.name = NoneV
      [] c.op = "get_latest_exchange_price" -> c.ids_or_names = <<>>
      [] c.op = "search_tms_by_name" -> c.names = <<>>
      [] c.op \in {"search_tms_by_id", "search_tms_by_id_full"} -> c.ids = <<>>
      [] OTHER -> FALSE

\* the call ended in this kind of exception without fetch being invoked
RaisedBeforeFetch(exc) ==
    /\ pc = "done"
    /\ outcome.kind = "raise"
    /\ outcome.err.exc = exc
    /\ fetches = 0
    /\ ~sent.made
    /\ reply.kind = "none"

\* C2: a call of the historical or compressed price operations with neither id
\* nor name, of the latest price operation with no ids_or_names, of the search
\* by name with no names, or of a search by id with no ids raises
\* MissingArgumentError, and fetch is never invoked during that call.
MissingArgumentRaisedBeforeFetch ==
    (pc # "idle" /\ NoTargetGiven(call))
        => RaisedBeforeFetch("MissingArgumentError")

MissingIdAndNameRejected ==
    /\ call.op = "get_compressed_historical_exchange_price"
    /\ call.id = NoneV /\ call.name = NoneV
    /\ RaisedBeforeFetch("MissingArgumentError")
    /\ outcome.err.msg = <<"Missing required argument: ",
                           "You must specify at least 1 id or name.">>

\* a search call that gives both end_at and count
BothEndAndCount(c) ==
    c.op \in SearchOps /\ c.end_at # NoneV /\ c.count # NoneV

\* the call ended in ConflictingArgumentError, its message naming both
\* arguments, without fetch being invoked
ConflictRaisedBeforeFetch ==
    /\ RaisedBeforeFetch("ConflictingArgumentError")
    /\ Contains(outcome.err.msg, <<"count">>)
    /\ Contains(outcome.err.msg, <<"end_at">>)

\* no request handed to fetch carries both `end` and `number`
NeverEndAndNumber ==
    sent.made => ~(HasKey(sent.params, "end") /\ HasKey(sent.params, "number"))

\* C3, as stated: every search call that gives both end_at and count raises
\* ConflictingArgumentError naming both arguments before fetch is invoked, and
\* no request that reaches the transport carries both `end` and `number`.
ConflictAlwaysRaised ==
    /\ (pc # "idle" /\ BothEndAndCount(call)) => ConflictRaisedBeforeFetch
    /\ NeverEndAndNumber

\* C3, amended: a search call that gives at least one name or id and both
\* end_at and count raises ConflictingArgumentError naming both arguments
\* before fetch is invoked, and no request that reaches the transport carries
\* both `end` and `number`.
ConflictRaisedWhenTargetGiven ==
    /\ (pc # "idle" /\ BothEndAndCount(call) /\ ~NoTargetGiven(call))
          => ConflictRaisedBeforeFetch
    /\ NeverEndAndNumber

ZeroCountConflictsWithEnd ==
    /\ call.op = "search_tms_by_id"
    /\ call.ids # <<>>
    /\ call.end_at # NoneV
    /\ call.count = IntV(0)
    /\ ConflictRaisedBeforeFetch

\* an object with an `error` key and no `pagination` or `data` key
IsErrorPayload(data) ==
    /\ data.t = "dict"
    /\ HasKey(data.kv, "error")
    /\ ~HasKey(data.kv, "pagination")
    /\ ~HasKey(data.kv, "data")

\* C4: when the transport returns an error payload to get_vos_history or
\* get_social_feed, the call returns an error model as data; it does not raise.
PageErrorReturnedAsData ==
    (call.op \in PaginatedOps /\ pc = "done" /\ reply.kind = "json"
        /\ IsErrorPayload(reply.data))
        => /\ outcome.kind = "return"
           /\ \/ outcome.val.cls = "ErrorResponse"
              \/ ReturnsErrWithMessage(outcome, Get(reply.data.kv, "error"))

----------------------------------------------------------------------------
(* Properties of the requests the services send *)

\* the i-th parameter of a compiled route as text: ?name=value for the first,
\* &name=value for every later one
RenderedParam(c, i) ==
    <<IF i = 1 THEN "?" ELSE "&", c.params[i].k, "=">> \o PyStr(c.params[i].v)

\* the parameters in insertion order, one after the other
RenderedParams(c) ==
    JoinWith([i \in 1..Len(c.params) |-> RenderedParam(c, i)], <<>>)

\* C11: get_params_str renders the parameters in insertion order as name=value
\* pairs, the first prefixed with ?, every later one with &, and the empty
\* string when there are none; pretty() is the base authority, then the uri,
\* then that string.  Observed in the message of the HttpError a failed fetch
\* raises, which is built from pretty() of the request that was sent.
ParamsRenderedInOrder ==
    (pc = "done" /\ reply.kind = "failure")
        => /\ CompiledRoute_get_params_str(sent) = RenderedParams(sent)
           /\ (sent.params = <<>> => CompiledRoute_get_params_str(sent) = <<>>)
           /\ outcome =
                Raise([exc |-> "HttpError",
                       msg |-> <<"HTTP exception in ">>
                               \o BaseUrlValue(sent.base) \o sent.uri
                               \o RenderedParams(sent)
                               \o <<": ">> \o reply.text])

FailedWithThreeParams ==
    /\ pc = "done"
    /\ reply.kind = "failure"
    /\ Len(sent.params) = 3
    /\ outcome.err.exc = "HttpError"


\* the tokens of a call of get_latest_exchange_price that are of this type,
\* as texts, in the order given
TokenTexts(c, type) ==
    LET picked == SelectSeq(c.ids_or_names, LAMBDA x : x.t = type)
    IN  [i \in 1..Len(picked) |-> PyStr(picked[i])]

\* the `|`-separated pieces of the value sent for this parameter
SentPieces(key) == SplitOn(Get(sent.params, key).s, "|", <<>>)

LatestSent == call.op = "get_latest_exchange_price" /\ sent.made

\* C12, as stated: the `id` parameter is the `|`-join of the integer tokens
\* and the `name` parameter the `|`-join of the string tokens, each in the
\* order given; every token is in exactly one of the two; when both kinds are
\* present both parameters are in the one request that is sent.
TokensPartitionedByType ==
    LatestSent =>
        /\ fetches = 1
        /\ HasKey(sent.params, "id") <=> TokenTexts(call, "int") # <<>>
        /\ HasKey(sent.params, "name") <=> TokenTexts(call, "str") # <<>>
        /\ HasKey(sent.params, "id") => SentPieces("id") = TokenTexts(call, "int")
        /\ HasKey(sent.params, "name")
              => SentPieces("name") = TokenTexts(call, "str")

\* C12, amended: a parameter is sent exactly when the join of its tokens is
\* not the empty text, that is, unless there is no token of its kind or the
\* only string token is the empty string; a parameter that is sent is the
\* `|`-join of the tokens of its kind in the order given, and both parameters
\* travel in the one request that is sent.
NonEmptyJoinsPartitionedByType ==
    LatestSent =>
        /\ fetches = 1
        /\ HasKey(sent.params, "id") <=> TokenTexts(call, "int") # <<>>
        /\ HasKey(sent.params, "name")
              <=> TokenTexts(call, "str") \notin {<<>>, <<<<>>>>}
        /\ HasKey(sent.params, "id") => SentPieces("id") = TokenTexts(call, "int")
        /\ HasKey(sent.params, "name")
              => SentPieces("name") = TokenTexts(call, "str")

BothKindsSentTogether ==
    /\ LatestSent
    /\ call.ids_or_names = <<StrV(<<"Abyssal whip">>), IntV(4151)>>
    /\ Keys(sent.params) = <<"id", "name">>
    /\ Get(sent.params, "id") = StrV(<<"4151">>)
    /\ Get(sent.params, "name") = StrV(<<"Abyssal whip">>)


LocaleOps ==
    {"get_latest_exchange_price", "get_historical_exchange_price",
     "get_compressed_historical_exchange_price", "search_tms_by_name"}

\* C13: for the operations that take a locale, the request that is sent has a
\* `lang` parameter if and only if a locale was supplied, and its value is
\* then the locale's wire string.
LangSentIffLocaleGiven ==
    (call.op \in LocaleOps /\ sent.made) =>
        /\ HasKey(sent.params, "lang") <=> call.locale # NoneV
        /\ call.locale # NoneV
              => Get(sent.params, "lang") = StrV(call.locale.value)

PortugueseSearchSent ==
    /\ call.op = "search_tms_by_name"
    /\ call.locale = Enum("Locale", "PT", <<"pt">>)
    /\ pc = "fetching"
    /\ Get(sent.params, "lang") = StrV(<<"pt">>)

----------------------------------------------------------------------------
(* Properties of what the services decode *)

\* the outcome is a returned Ok that holds a list of models
ReturnsOkList(o) ==
    /\ o.kind = "return"
    /\ o.val.cls = "Ok"
    /\ unwrap(o.val).val.t = "list"

\* C14: decoding the id-keyed object {"4151": {"price": 1200, "timestamp":
\* 1690000000, "volume": 10}}, whose value has no id field, gives exactly one
\* model per key, its id the numeric value of the key and its price the
\* value's price.
IdKeyedMapStampsId ==
    (call.op = "get_latest_exchange_price" /\ EndedWith(IdKeyedBody))
        => /\ ReturnsOkList(outcome)
           /\ LET prices == unwrap(outcome.val).val.xs
              IN  /\ Len(prices) = Len(IdKeyedBody.kv)
                  /\ DictGet(prices[1].attrs, "id") = IntV(4151)
                  /\ DictGet(prices[1].attrs, "price") = IntV(1200)

----------------------------------------------------------------------------
(* The decoders as a state machine: a raw JSON value is handed to one
   response class, whose from_raw is called on that same object, repeatedly *)

MaxDecodes == 2      \* from_raw calls made on one raw object
MaxKeys == 2         \* keys of a compressed price object

\* what one from_raw call does: out is its return value or exception, data
\* the object it was given as the call left it, calls the date parsers it
\* called.  Only the social feed decoders assign to their argument.
Pure(o, data) == [out |-> o, data |-> data, calls |-> <<>>]
Assigns(r) == [out |-> r.out, data |-> r.data, calls |-> <<>>]
Parses(r, data) == [out |-> r.out, data |-> data, calls |-> r.calls]

FromRaw(cls, data) ==
    CASE cls = "SocialFeedResponse" -> Assigns(SocialFeedResponse_steps(data))
      [] cls = "PaginatedSocialFeedResponse" ->
            Assigns(PaginatedSocialFeedResponse_steps(data))
      [] cls = "TmsSearchResponse" ->
            Parses(TmsSearchResponse_steps(data), data)
      [] cls = "TmsSearchFullResponse" ->
            Parses(TmsSearchFullResponse_steps(data), data)
      [] cls = "ErrorResponse" -> Pure(ErrorResponse_from_raw(data), data)
      [] cls = "PaginationMeta" -> Pure(PaginationMeta_from_raw(data), data)
      [] cls = "VosResponse" -> Pure(VosResponse_from_raw(data), data)
      [] cls = "VosHistoryResponse" ->
            Pure(VosHistoryResponse_from_raw(data), data)
      [] cls = "ExchangePriceResponse" ->
            Pure(ExchangePriceResponse_from_raw(data), data)
      [] cls = "CompressedExchangePriceResponse" ->
            Pure(CompressedExchangePriceResponse_from_raw(data), data)
      [] cls = "TmsResponse" -> Pure(TmsResponse_from_raw(data), data)
      [] cls = "RealtimePriceResponse" ->
            Pure(RealtimePriceResponse_from_raw(data), data)
      [] cls = "MappingResponse" -> Pure(MappingResponse_from_raw(data), data)
      [] cls = "AveragePriceResponse" ->
            Pure(AveragePriceResponse_from_raw(data), data)
      [] cls = "TimeFilteredPriceResponse" ->
            Pure(TimeFilteredPriceResponse_from_raw(data), data)
      [] cls = "TimeSeriesPriceResponse" ->
            Pure(TimeSeriesPriceResponse_from_raw(data), data)

\* ---- raw values the decoders are given

\* an optional field is left out, sent as null, or sent with a value
Presence == {"absent", "null", "value"}

\* the object with the required entries, then every optional entry as chosen
RECURSIVE WithOptional(_, _, _)
WithOptional(required, optional, choice) ==
    IF optional = <<>> THEN required
    ELSE WithOptional(
            CASE choice[1] = "absent" -> required
              [] choice[1] = "null" -> Append(required, KV(optional[1].k, NoneV))
              [] choice[1] = "value" -> Append(required, optional[1]),
            Tail(optional), Tail(choice))

Variants(required, optional) ==
    {DictV(WithOptional(required, optional, choice)) :
        choice \in [1..Len(optional) -> Presence]}

\* the same with the optional entries all alike, or all but one sent with a
\* value
NearVariants(required, optional) ==
    {DictV(WithOptional(required, optional, choice)) :
        choice \in {c \in [1..Len(optional) -> Presence] :
                        \/ \A i, j \in 1..Len(optional) : c[i] = c[j]
                        \/ \E i \in 1..Len(optional) :
                              \A j \in 1..Len(optional) \ {i} : c[j] = "value"}}

SocialFeedRequired ==
    <<KV("id", IntV(7)), KV("title", StrV(<<"News">>)),
      KV("dateAdded", StrV(IsoText))>>
SocialFeedOptional ==
    <<KV("author", StrV(<<"Mod">>)), KV("source", StrV(<<"twitter">>)),
      KV("image", StrV(<<"a.png">>)), KV("icon", StrV(<<"b.png">>)),
      KV("expiryDate", StrV(IsoText)), KV("datePublished", StrV(IsoText))>>

ExchangePriceRequired ==
    <<KV("id", StrV(<<"4151">>)), KV("price", IntV(1200)),
      KV("timestamp", IntV(1690000000))>>
ExchangePriceOptional == <<KV("volume", IntV(10))>>

RealtimePriceOptional ==
    <<KV("high", IntV(100)), KV("highTime", IntV(1690000000)),
      KV("low", IntV(90)), KV("lowTime", IntV(1690000300))>>

MappingRequired ==
    <<KV("id", IntV(2)), KV("name", StrV(<<"Cannonball">>)),
      KV("examine", StrV(<<"Ammo for the Dwarf Cannon.">>)),
      KV("members", BoolV(TRUE)), KV("value", IntV(5)),
      KV("icon", StrV(<<"Cannonball.png">>))>>
MappingOptional == <<KV("lowalch", IntV(2)), KV("highalch", IntV(3))>>

\* compressed price objects: up to MaxKeys distinct keys, each with a pair
\* [epoch milliseconds, price]
CompressedKeys == {"4151", "2", "Abyssal whip"}
CompressedPairs ==
    {ListV(<<IntV(1690000000), IntV(1200)>>),
     ListV(<<IntV(1690000123), IntV(70000)>>)}
CompressedObjects ==
    {DictV(kv) : kv \in
        {kv \in SeqsUpTo([k : CompressedKeys, v : CompressedPairs], MaxKeys) :
            \A i, j \in 1..Len(kv) : kv[i].k = kv[j].k => i = j}}

\* dates of the shop responses: every month in English, in Portuguese, in
\* Portuguese written with a capital, and two texts that are no date
PortugueseMonths == [i \in 1..12 |-> TitleCaseMonths[i].v]
DateTexts ==
    UNION {{<<"5", " ", EnglishMonths[m], " ", "2023">>,
            <<"5", " de ", PortugueseMonths[m], " de ", "2023">>,
            <<"5", " de ", TitleCaseMonths[m].k, " de ", "2023">>} : m \in 1..12}
    \cup {<<"soon">>, <<"31", " ", "June", " ", "2023">>}

RawValues(cls) ==
    CASE cls = "SocialFeedResponse" ->
            NearVariants(SocialFeedRequired, SocialFeedOptional)
      [] cls = "PaginatedSocialFeedResponse" ->
            {SocialFeedBody, ErrorOnlyBody,
             DictV(<<KV("pagination", PaginationBody),
                     KV("data", ListV(<<DictV(SocialFeedRequired),
                                        DictV(<<KV("id", IntV(8))>>),
                                        DictV(SocialFeedRequired)>>))>>)}
      [] cls = "TmsSearchResponse" ->
            {DictV(<<KV("date", StrV(d)),
                     KV("items", ListV(<<StrV(<<"Uncharted island map">>)>>))>>) :
                d \in DateTexts}
      [] cls = "TmsSearchFullResponse" ->
            {DictV(<<KV("date", StrV(d)), KV("items", ListV(<<>>))>>) :
                d \in DateTexts}
      [] cls = "ErrorResponse" -> {ErrorOnlyBody, ErrorBody}
      [] cls = "PaginationMeta" -> {PaginationBody}
      [] cls = "VosResponse" -> {VosHistoryBody.kv[2].v.xs[1]}
      [] cls = "VosHistoryResponse" -> {VosHistoryBody}
      [] cls = "ExchangePriceResponse" ->
            Variants(ExchangePriceRequired, ExchangePriceOptional)
            \cup {PriceEntry(StrV(IsoText))}
      [] cls = "CompressedExchangePriceResponse" -> CompressedObjects
      [] cls = "TmsResponse" -> {SearchFullBody.xs[1].kv[2].v.xs[1]}
      [] cls = "RealtimePriceResponse" -> Variants(<<>>, RealtimePriceOptional)
      [] cls = "MappingResponse" -> Variants(MappingRequired, MappingOptional)
      [] cls = "AveragePriceResponse" -> {DictV(AverageEntry)}
      [] cls = "TimeFilteredPriceResponse" -> {AverageBody}
      [] cls = "TimeSeriesPriceResponse" -> {TimeSeriesBody.kv[1].v.xs[1]}

ResponseClasses ==
    {"SocialFeedResponse", "PaginatedSocialFeedResponse", "TmsSearchResponse",
     "TmsSearchFullResponse", "ErrorResponse", "PaginationMeta", "VosResponse",
     "VosHistoryResponse", "ExchangePriceResponse",
     "CompressedExchangePriceResponse", "TmsResponse", "RealtimePriceResponse",
     "MappingResponse", "AveragePriceResponse", "TimeFilteredPriceResponse",
     "TimeSeriesPriceResponse"}

\* cls.from_raw(data), called on the object the caller still holds
Decode ==
    /\ decoder # "none"
    /\ Len(decodeLog) < MaxDecodes
    /\ LET r == FromRaw(decoder, rawNow)
       IN  /\ rawNow' = r.data
           /\ decodeLog' = Append(decodeLog, [out |-> r.out, calls |-> r.calls])
    /\ UNCHANGED <<decoder, rawIn, tz, resultVars, routeVars, facadeVars, taskVars>>

DecodeInit ==
    /\ ResultIdle /\ RouteIdle /\ FacadeIdle /\ TaskIdle
    /\ \E cls \in ResponseClasses :
          \E data \in RawValues(cls) :
              /\ decoder = cls
              /\ rawIn = data
              /\ rawNow = data
    /\ decodeLog = <<>>
    /\ tz = 0

DecodeNext == Decode

DecodeSpec == DecodeInit /\ [][DecodeNext]_vars

----------------------------------------------------------------------------
(* Claims about the decoders *)

\* the from_raw calls made so far
Decoded == {decodeLog[i] : i \in 1..Len(decodeLog)}

\* self.name of a decoded model whose attribute was assigned
Attr(m, name) == Get(m.attrs, name)

\* model m carries key as identifier, and the pair's instant and price
ReadsPair(m, key, pair) ==
    /\ m.cls = "CompressedExchangePriceResponse"
    /\ Keys(m.attrs) = <<"identifier", "timestamp", "price">>
    /\ Attr(m, "identifier") = StrV(<<key>>)
    /\ TimestampSeconds(Attr(m, "timestamp")) = pair.xs[1].n \div 1000
    /\ Attr(m, "timestamp").us = (pair.xs[1].n % 1000) * 1000
    /\ Attr(m, "price") = pair.xs[2]

\* C15: CompressedExchangePriceResponse.from_raw of a one-key object
\* {key: [epochMillis, price]} returns a model whose identifier is the key
\* text, whose timestamp is the instant epochMillis / 1000 seconds after the
\* epoch, and whose price is the second element.
CompressedPairDecoded ==
    (decoder = "CompressedExchangePriceResponse" /\ Len(rawIn.kv) = 1)
        => \A d \in Decoded :
              /\ d.out.kind = "return"
              /\ ReadsPair(d.out.val, rawIn.kv[1].k, rawIn.kv[1].v)

\* the one-key object {"4151": [1690000123, 70000]} was decoded: 1690000
\* whole seconds and 123 milliseconds
WhipPairDecoded ==
    /\ decoder = "CompressedExchangePriceResponse"
    /\ rawIn = DictV(<<KV("4151", ListV(<<IntV(1690000123), IntV(70000)>>))>>)
    /\ \E d \in Decoded :
          /\ d.out.kind = "return"
          /\ Attr(d.out.val, "identifier") = StrV(<<"4151">>)
          /\ Attr(d.out.val, "timestamp") = DateTime(1970, 1, 20, 13, 26, 40, 123000)
          /\ Attr(d.out.val, "price") = IntV(70000)

\* C16: CompressedExchangePriceResponse.from_raw of an object with more than
\* one key returns a model whose identifier, timestamp and price all come
\* from the key iterated last; no field comes from another key.
LastKeyWins ==
    (decoder = "CompressedExchangePriceResponse" /\ Len(rawIn.kv) > 1)
        => \A d \in Decoded :
              /\ d.out.kind = "return"
              /\ ReadsPair(d.out.val, rawIn.kv[Len(rawIn.kv)].k,
                           rawIn.kv[Len(rawIn.kv)].v)

\* an object whose two keys carry different pairs was decoded
TwoKeysDecoded ==
    /\ decoder = "CompressedExchangePriceResponse"
    /\ Len(rawIn.kv) = 2
    /\ rawIn.kv[1].k # rawIn.kv[2].k
    /\ rawIn.kv[1].v.xs[1] # rawIn.kv[2].v.xs[1]
    /\ rawIn.kv[1].v.xs[2] # rawIn.kv[2].v.xs[2]
    /\ \E d \in Decoded : d.out.kind = "return"

\* the nullable fields of the response classes, each with the JSON key it is
\* read from
NullableFields(cls) ==
    CASE cls = "SocialFeedResponse" ->
            {<<"author", "author">>, <<"source", "source">>,
             <<"image", "image">>, <<"icon", "icon">>,
             <<"expiry_date", "expiryDate">>,
             <<"date_published", "datePublished">>}
      [] cls = "ExchangePriceResponse" -> {<<"volume", "volume">>}
      [] cls = "RealtimePriceResponse" ->
            {<<"high", "high">>, <<"high_time", "highTime">>,
             <<"low", "low">>, <<"low_time", "lowTime">>}
      [] cls = "MappingResponse" ->
            {<<"low_alch", "lowalch">>, <<"high_alch", "highalch">>}
      [] OTHER -> {}

\* the key is missing from the raw object, or its value is null
AbsentOrNull(data, key) ==
    data.t = "dict" /\ (HasKey(data.kv, key) => Get(data.kv, key) = NoneV)

\* C17: a nullable field whose key is absent from the payload, or present
\* with null, decodes to None and the decoder raises no exception
\* (SocialFeedResponse, ExchangePriceResponse, RealtimePriceResponse,
\* MappingResponse).
NullableDecodesToNone ==
    (NullableFields(decoder) # {} /\ decodeLog # <<>>
        /\ \E f \in NullableFields(decoder) : AbsentOrNull(rawIn, f[2]))
        => /\ decodeLog[1].out.kind = "return"
           /\ \A f \in NullableFields(decoder) :
                 AbsentOrNull(rawIn, f[2])
                    => /\ HasKey(decodeLog[1].out.val.attrs, f[1])
                       /\ Attr(decodeLog[1].out.val, f[1]) = NoneV

\* the narrower statements that separate the cases: null values, and keys
\* left out of MappingResponse and of the two social feed dates
NullDecodesToNone ==
    (NullableFields(decoder) # {} /\ decodeLog # <<>>
        /\ \A f \in NullableFields(decoder) : HasKey(rawIn.kv, f[2]))
        => /\ decodeLog[1].out.kind = "return"
           /\ \A f \in NullableFields(decoder) :
                 Get(rawIn.kv, f[2]) = NoneV
                    => /\ HasKey(decodeLog[1].out.val.attrs, f[1])
                       /\ Attr(decodeLog[1].out.val, f[1]) = NoneV

\* the response classes that decode a localized date
LocalizedClasses == {"TmsSearchResponse", "TmsSearchFullResponse"}

\* C18: TmsSearchResponse and TmsSearchFullResponse try the English date
\* format first; the Portuguese parser is called only after the English
\* parser failed on the same text, and never before it.
EnglishTriedFirst ==
    decoder \in LocalizedClasses
        => \A d \in Decoded :
              LET en == dt_from_strp(Get(rawIn.kv, "date"))
              IN  /\ d.calls # <<>>
                  /\ d.calls[1] = "_dt_from_strp"
                  /\ en.kind = "return"
                        => (d.calls = <<"_dt_from_strp">> /\ d.out.kind = "return"
                            /\ Attr(d.out.val, "date") = en.val)
                  /\ en.kind = "raise"
                        => d.calls = <<"_dt_from_strp", "_dt_from_pt">>

\* "5 de janeiro de 2023" was decoded by the Portuguese parser, after the
\* English one
JaneiroDecodedSecond ==
    /\ decoder \in LocalizedClasses
    /\ Get(rawIn.kv, "date") = StrV(<<"5", " de ", "janeiro", " de ", "2023">>)
    /\ \E d \in Decoded :
          /\ d.calls = <<"_dt_from_strp", "_dt_from_pt">>
          /\ d.out.kind = "return"
          /\ Attr(d.out.val, "date") = DateTime(2023, 1, 5, 0, 0, 0, 0)

\* the month names of the two languages, by month number
MonthNumbers == 1..12

EnglishDate(m) == StrV(<<"5", " ", EnglishMonths[m], " ", "2023">>)
PortugueseDate(m) == StrV(<<"5", " de ", PortugueseMonths[m], " de ", "2023">>)

\* C19: for every month, the Portuguese form `D de <mês> de YYYY` decodes
\* to the same date as the English form `D <Month> YYYY`.
PortugueseDecodesAsEnglish ==
    (decoder \in LocalizedClasses
        /\ \E m \in MonthNumbers : Get(rawIn.kv, "date") = PortugueseDate(m))
        => \A d \in Decoded :
              LET m == CHOOSE n \in MonthNumbers :
                          Get(rawIn.kv, "date") = PortugueseDate(n)
                  en == LocalizedDate(EnglishDate(m))
              IN  /\ en.kind = "return"
                  /\ d.out.kind = "return"
                  /\ Attr(d.out.val, "date") = en.val

\* the months for which it does hold: all but March and September
MonthsDecodedAlike ==
    {m \in MonthNumbers :
        LocalizedDate(PortugueseDate(m)) = LocalizedDate(EnglishDate(m))}

MisspeltMonths == MonthsDecodedAlike = MonthNumbers \ {3, 9}

\* C20: every from_raw is pure: the raw JSON value it was given is unchanged
\* after decoding, and decoding the same value twice yields equal models.
FromRawIsPure ==
    /\ rawNow = rawIn
    /\ Len(decodeLog) >= 2 => decodeLog[2].out = decodeLog[1].out

\* the classes whose from_raw assigns to its argument
MutatingClasses == {"SocialFeedResponse", "PaginatedSocialFeedResponse"}

\* every other class leaves its argument alone and decodes it alike twice
OtherDecodersArePure == decoder \notin MutatingClasses => FromRawIsPure

----------------------------------------------------------------------------
(* Timestamps: one instant written as a number and as an ISO-8601 text, decoded
   by ExchangePriceResponse.from_raw in a process whose local zone is tz *)

\* instants, each as seconds since the epoch and as its UTC text with "Z"
Instants ==
    {    [epoch |-> 0,
      iso |-> <<"1970", "-", "01", "-", "01", "T", "00", ":", "00", ":", "00", "Z">>],
     [epoch |-> 86399,
      iso |-> <<"1970", "-", "01", "-", "01", "T", "23", ":", "59", ":", "59", "Z">>],
     [epoch |-> 1690000,
      iso |-> <<"1970", "-", "01", "-", "20", "T", "13", ":", "26", ":", "40", "Z">>],
     [epoch |-> 951782400,
      iso |-> <<"2000", "-", "02", "-", "29", "T", "00", ":", "00", ":", "00", "Z">>],
     [epoch |-> 1690000000,
      iso |-> <<"2023", "-", "07", "-", "22", "T", "04", ":", "26", ":", "40", "Z">>],
     [epoch |-> 1690000300,
      iso |-> <<"2023", "-", "07", "-", "22", "T", "04", ":", "31", ":", "40", "Z">>],
     [epoch |-> 1690086400,
      iso |-> <<"2023", "-", "07", "-", "23", "T", "04", ":", "26", ":", "40", "Z">>]}

\* the instants whose milliseconds fit 32-bit integers
MilliInstants == {i \in Instants : i.epoch <= 2147483647 \div 1000}

\* zones the process may run in: UTC, UTC+1, UTC-5
UtcOffsets == {0, 3600, -18000}

\* a price entry carrying the timestamp in the given form
ClockFixture(timestamp) ==
    DictV(<<KV("id", StrV(<<"4151">>)), KV("price", IntV(1200)),
            KV("volume", IntV(10)), KV("timestamp", timestamp)>>)

ClockFixtures ==
    {ClockFixture(IntV(i.epoch)) : i \in Instants}
    \cup {ClockFixture(StrV(i.iso)) : i \in Instants}
    \cup {ClockFixture(IntV(i.epoch * 1000)) :
            i \in MilliInstants}

ClockInit ==
    /\ ResultIdle /\ RouteIdle /\ FacadeIdle /\ TaskIdle
    /\ decoder = "ExchangePriceResponse"
    /\ rawIn \in ClockFixtures
    /\ rawNow = rawIn
    /\ decodeLog = <<>>
    /\ tz \in UtcOffsets

ClockNext == Decode

ClockSpec == ClockInit /\ [][ClockNext]_vars

\* the timestamp ExchangePriceResponse.from_raw reads from the ISO fixture of
\* instant i, in this process
IsoDecoded(i) == ExchangePriceResponse_from_raw(ClockFixture(StrV(i.iso)))

\* every decode of the fixture returned a model with the timestamp that the
\* ISO fixture of instant i decodes to
DecodedAsIso(i) ==
    \A d \in Decoded :
        /\ d.out.kind = "return"
        /\ IsoDecoded(i).kind = "return"
        /\ Attr(d.out.val, "timestamp") = Attr(IsoDecoded(i).val, "timestamp")

\* C21: a fixture carrying an instant as epoch seconds and the fixture
\* carrying the same instant as an ISO-8601 text with a trailing Z decode to
\* date/time values with the same wall-clock numbers (the text parsed with
\* the Z stripped, as a naive value).
EpochSecondsDecodeAsIso ==
    \A i \in Instants :
        Get(rawIn.kv, "timestamp") = IntV(i.epoch) => DecodedAsIso(i)

\* the same for a fixture carrying the instant as epoch milliseconds, in a
\* process whose local zone is UTC; and what the ISO text decodes to
EpochMillisDecodeAsIsoInUtc ==
    \A i \in Instants :
        (tz = 0 /\ i.epoch # 0 /\ i \in MilliInstants
            /\ Get(rawIn.kv, "timestamp") = IntV(i.epoch * 1000))
            => DecodedAsIso(i)

IsoDecodesToItsNumbers ==
    \A i \in Instants :
        /\ IsoDecoded(i).kind = "return"
        /\ isoformat(Attr(IsoDecoded(i).val, "timestamp")) \o <<"Z">> = i.iso

\* the milliseconds fixture decodes otherwise away from UTC
EpochMillisDecodeAsIso ==
    \A i \in Instants :
        (i.epoch # 0 /\ i \in MilliInstants
            /\ Get(rawIn.kv, "timestamp") = IntV(i.epoch * 1000))
            => DecodedAsIso(i)

----------------------------------------------------------------------------
(* Further properties of the services *)

\* C22: get_avg_price with a timestamp sends a `timestamp` parameter t that
\* is the argument's epoch second e rounded down to a 300-second boundary
\* (t divisible by 300, t <= e, e - t < 300); with no timestamp it sends no
\* `timestamp` parameter.
AvgTimestampRoundedDown ==
    (call.op = "get_avg_price" /\ sent.made)
        => IF call.timestamp = NoneV
           THEN ~HasKey(sent.params, "timestamp")
           ELSE /\ HasKey(sent.params, "timestamp")
                /\ Get(sent.params, "timestamp").t = "int"
                /\ LET t == Get(sent.params, "timestamp").n
                       e == TimestampSeconds(call.timestamp)
                   IN  t % 300 = 0 /\ t <= e /\ e - t < 300

\* 12:04:59.999999 was sent as 12:00:00, one microsecond short of a boundary
LastSecondRoundedDown ==
    /\ call.op = "get_avg_price"
    /\ call.timestamp = DateTime(2023, 7, 5, 12, 4, 59, 999999)
    /\ sent.made
    /\ DictGet(sent.params, "timestamp") = IntV(1688558400)

\* the exceptions a handler raises while it validates its arguments
ValidationErrors == {"MissingArgumentError", "ConflictingArgumentError"}

\* C23: every facade call invokes fetch at most once, and exactly once unless
\* argument validation raised; when fetch raises HttpError the call ends at
\* once in that exception: no further fetch, no decoding, no Result.
FetchedOnceFaultPropagates ==
    /\ fetches \in {0, 1}
    /\ fetches = 1 <=> sent.made
    /\ pc # "idle"
          => (fetches = 0 <=> (/\ pc = "done"
                               /\ reply.kind = "none"
                               /\ outcome.kind = "raise"
                               /\ outcome.err.exc \in ValidationErrors))
    /\ reply.kind = "failure"
          => /\ pc = "done"
             /\ fetches = 1
             /\ outcome = Raise(HttpError(sent, reply.text))

\* a historical price call ended in the transport's fault
TransportFaultReachedCaller ==
    /\ pc = "done"
    /\ call.op = "get_historical_exchange_price"
    /\ call.id = IntV(4151)
    /\ fetches = 1
    /\ reply = [kind |-> "failure", text |-> <<"Internal Server Error">>]
    /\ outcome.kind = "raise"
    /\ outcome.err.exc = "HttpError"
    /\ Contains(outcome.err.msg, <<"Internal Server Error">>)

HistoryOps ==
    {"get_historical_exchange_price", "get_compressed_historical_exchange_price"}

\* the price entries of a payload, in payload order, each with its key
RECURSIVE PayloadEntries(_)
PayloadEntries(kv) ==
    IF kv = <<>> THEN <<>>
    ELSE [i \in 1..Len(kv[1].v.xs) |-> [key |-> kv[1].k, entry |-> kv[1].v.xs[i]]]
         \o PayloadEntries(Tail(kv))

\* model m was decoded from entry e of the payload
DecodedFrom(op, m, e) ==
    /\ m.t = "model"
    /\ Attr(m, "identifier") = StrV(<<e.key>>)
    /\ IF op = "get_historical_exchange_price"
       THEN /\ m.cls = "ExchangePriceResponse"
            /\ Attr(m, "price") = Get(e.entry.kv, "price")
            /\ Attr(m, "volume") = Get(e.entry.kv, "volume")
       ELSE /\ m.cls = "CompressedExchangePriceResponse"
            /\ Attr(m, "price") = e.entry.xs[2]

\* the outcome is Ok holding one model per entry of the payload, in order
ReturnsEveryEntry(op, o, data) ==
    /\ ReturnsOkList(o)
    /\ LET prices == unwrap(o.val).val.xs
           entries == PayloadEntries(data.kv)
       IN  /\ Len(prices) = Len(entries)
           /\ \A i \in 1..Len(entries) : DecodedFrom(op, prices[i], entries[i])

\* the outcome is Err holding the error model of the payload
ReturnsErrorModel(o, data) ==
    ReturnsErrWithMessage(o, Get(data.kv, "error"))

\* C24: get_historical_exchange_price and
\* get_compressed_historical_exchange_price return, for a non-error payload,
\* Ok with exactly one model per price entry, in payload order, each with the
\* key it was listed under as identifier; for an error payload, Err with the
\* error model; never an Ok with fewer models than the payload has entries.
NoPartialResults ==
    (pc = "done" /\ call.op \in HistoryOps /\ reply.kind = "json")
        => IF InData("error", reply.data)
           THEN ReturnsErrorModel(outcome, reply.data)
           ELSE ReturnsEveryEntry(call.op, outcome, reply.data)

\* the part that holds: payloads without "error", and error payloads that
\* carry "success" as well
NoPartialResultsUnlessErrorOnly ==
    (pc = "done" /\ call.op \in HistoryOps /\ reply.kind = "json"
        /\ reply.data # ErrorOnlyBody)
        => IF InData("error", reply.data)
           THEN ReturnsErrorModel(outcome, reply.data)
           ELSE ReturnsEveryEntry(call.op, outcome, reply.data)

ThreeEntriesOfTwoKeysReturned ==
    /\ pc = "done"
    /\ call.op = "get_compressed_historical_exchange_price"
    /\ reply = [kind |-> "json", data |-> CompressedTwoKeyBody]
    /\ ReturnsOkList(outcome)
    /\ Len(unwrap(outcome.val).val.xs) = 3

----------------------------------------------------------------------------
(* Two facade calls in flight together.  asyncio runs a handler without
   interruption from its call to its await and from the transport's answer
   to its return; the calls interleave only at those points.  Route is a
   frozen dataclass: the module-level constants above cannot be assigned to.
   Every CompiledRoute is an object on the heap, reached by its address. *)

\* compiled = CompiledRoute(self): the object is new, at an address not in use
NewAddress_mut(h) == 1
NewAddress(h) == CHOOSE a \in Addresses :
                    /\ h[a] = NoObject
                    /\ \A b \in Addresses : h[b] = NoObject => a <= b

\* the handler of call c, from the call to its await or its raise
ToAwait(c) ==
    CASE c.op = "get_latest_exchange_price" ->
            get_latest_exchange_price(c.game, c.ids_or_names, c.locale)
      [] c.op = "get_historical_exchange_price" ->
            set_price_params_and_fetch(c.game, c.time_filter, c.id, c.name,
                                       c.locale, <<>>)
      [] c.op = "get_compressed_historical_exchange_price" ->
            set_price_params_and_fetch(c.game, c.time_filter, c.id, c.name,
                                       c.locale,
                                       <<KV("compress", StrV(<<"true">>))>>)
      [] c.op = "search_tms_by_name" ->
            set_tms_name_params_and_fetch(c.names, c.locale, c.start_at,
                                          c.end_at, c.count, <<>>)
      [] c.op = "search_tms_by_id" ->
            set_tms_id_params_and_fetch(c.ids, c.start_at, c.end_at, c.count,
                                        <<>>)
      [] c.op = "search_tms_by_id_full" ->
            set_tms_id_params_and_fetch(c.ids, c.start_at, c.end_at, c.count,
                                        <<KV("lang", StrV(<<"full">>))>>)
      [] c.op = "get_vos_history" -> get_vos_history(c.page)
      [] c.op = "get_social_feed" -> get_social_feed(c.page)
      [] c.op = "get_price" -> get_price(c.game, c.id)
      [] c.op = "get_avg_price" ->
            get_avg_price(c.game, c.time_filter, c.timestamp)
      [] c.op = "get_avg_price_by_id" ->
            get_avg_price_by_id(c.id, c.game, c.timestep)

\* calls made together: two of the same route, one of a route without
\* placeholders, one of the other service, one that validation rejects
TaskCalls ==
    {[op |-> "get_historical_exchange_price",
      game |-> Enum("WgGameType", "RS", <<"rs">>),
      time_filter |-> Enum("WgTimeFilter", "ALL", <<"all">>),
      id |-> IntV(4151), name |-> NoneV, locale |-> NoneV],
     [op |-> "get_historical_exchange_price",
      game |-> Enum("WgGameType", "OSRS", <<"osrs">>),
      time_filter |-> Enum("WgTimeFilter", "SAMPLE", <<"sample">>),
      id |-> NoneV, name |-> StrV(<<"Abyssal whip">>),
      locale |-> Enum("Locale", "PT", <<"pt">>)],
     [op |-> "get_historical_exchange_price",
      game |-> Enum("WgGameType", "RS", <<"rs">>),
      time_filter |-> Enum("WgTimeFilter", "ALL", <<"all">>),
      id |-> NoneV, name |-> NoneV, locale |-> NoneV],
     [op |-> "search_tms_by_name",
      names |-> <<StrV(<<"Uncharted island map">>)>>, locale |-> NoneV,
      start_at |-> DateTime(2023, 7, 5, 12, 3, 20, 0), end_at |-> NoneV,
      count |-> IntV(5)],
     [op |-> "get_price", game |-> Enum("RtGameType", "OSRS", <<"osrs">>),
      id |-> IntV(4151)]}

\* what the transport answers to a call made together with another
TaskBodies(op) == {ErrorBody}

\* task s calls the facade: the handler runs to its await; the route it
\* compiled is a new object, which with_params changes in place
TaskBegin(s, c) ==
    /\ tasks[s].pc = "idle"
    /\ IF ToAwait(c).kind = "raise"
       THEN /\ tasks' = [tasks EXCEPT ![s] =
                            [pc |-> "done", call |-> c, route |-> 0,
                             outcome |-> ToAwait(c)]]
            /\ heap' = heap
       ELSE /\ tasks' = [tasks EXCEPT ![s] =
                            [pc |-> "fetching", call |-> c,
                             route |-> NewAddress(heap),
                             outcome |-> NoOutcome]]
            /\ heap' = [heap EXCEPT ![NewAddress(heap)] = ToAwait(c).route]
    /\ UNCHANGED <<resultVars, routeVars, facadeVars, decodeVars>>

\* the transport answers task s with a JSON body: its handler runs to its end
TaskFetchReturns(s, data) ==
    /\ tasks[s].pc = "fetching"
    /\ tasks' = [tasks EXCEPT ![s].pc = "done",
                              ![s].outcome = Resume(tasks[s].call, data)]
    /\ UNCHANGED <<heap, resultVars, routeVars, facadeVars, decodeVars>>

\* the transport fails task s: HttpError(route, text) leaves its handler
TaskFetchRaises(s, text) ==
    /\ tasks[s].pc = "fetching"
    /\ tasks' = [tasks EXCEPT ![s].pc = "done",
                              ![s].outcome =
                                  Raise(HttpError(heap[tasks[s].route], text))]
    /\ UNCHANGED <<heap, resultVars, routeVars, facadeVars, decodeVars>>

\* the caller of task s has its outcome: the route object is released
TaskFinish(s) ==
    /\ tasks[s].pc = "done"
    /\ tasks' = [tasks EXCEPT ![s] = IdleTask]
    /\ heap' = IF tasks[s].route \in Addresses
                  /\ \A r \in Tasks \ {s} :
                        tasks[r].pc = "idle" \/ tasks[r].route # tasks[s].route
               THEN [heap EXCEPT ![tasks[s].route] = NoObject]
               ELSE heap
    /\ UNCHANGED <<resultVars, routeVars, facadeVars, decodeVars>>

ConcurrentInit ==
    ResultIdle /\ RouteIdle /\ FacadeIdle /\ TaskIdle /\ DecodeIdle

ConcurrentNext ==
    \/ \E s \in Tasks, c \in TaskCalls : TaskBegin(s, c)
    \/ \E s \in Tasks : \E data \in TaskBodies(tasks[s].call.op) :
          TaskFetchReturns(s, data)
    \/ \E s \in Tasks, text \in FailureTexts : TaskFetchRaises(s, text)
    \/ \E s \in Tasks : TaskFinish(s)

ConcurrentSpec == ConcurrentInit /\ [][ConcurrentNext]_vars

\* task s has handed a route to the transport
Fetched(s) == tasks[s].pc # "idle" /\ tasks[s].route \in Addresses

\* C25: concurrent calls are independent.  Whatever the interleaving of two
\* facade calls, the CompiledRoute each one handed to fetch holds exactly the
\* uri substitutions and query parameters its own arguments produce (what the
\* same call compiles when it runs alone), no two calls in flight hold the
\* same route object, and an HttpError names the route of the call it failed.
ConcurrentCallsIndependent ==
    \A s \in Tasks :
        Fetched(s) =>
            /\ heap[tasks[s].route] = ToAwait(tasks[s].call).route
            /\ \A r \in Tasks \ {s} :
                  Fetched(r) => tasks[r].route # tasks[s].route
            /\ tasks[s].outcome.kind = "raise" =>
                  \E text \in FailureTexts :
                      tasks[s].outcome =
                          Raise(HttpError(ToAwait(tasks[s].call).route, text))

\* both calls are suspended at fetch with different arguments for one Route
TwoCallsOfOneRouteInFlight ==
    /\ tasks["a"].pc = "fetching" /\ tasks["b"].pc = "fetching"
    /\ tasks["a"].call.op = "get_historical_exchange_price"
    /\ tasks["b"].call.op = "get_historical_exchange_price"
    /\ tasks["a"].call.id = IntV(4151)
    /\ tasks["b"].call.name = StrV(<<"Abyssal whip">>)
    /\ heap[tasks["a"].route].params # heap[tasks["b"].route].params

----------------------------------------------------------------------------
(* SocialFeedResponse.from_raw on objects that carry more than the model has *)

\* the keys of the API object that the model has a field for
SocialFeedKeys ==
    {"id", "url", "title", "excerpt", "author", "curator", "source", "image",
     "icon", "expiryDate", "datePublished", "dateAdded"}

\* entries the model has no field for: new API fields, the name of a method
\* of the model, the name of the attribute every object has
ExtraEntries ==
    <<KV("likes", IntV(3)), KV("from_raw", StrV(<<"x">>)),
      KV("tags", ListV(<<>>)), KV("__class__", StrV(<<"Post">>))>>

ExtraChoices == [1..Len(ExtraEntries) -> {"absent", "value"}]

KnownFeeds ==
    {DictV(SocialFeedRequired), DictV(SocialFeedRequired \o SocialFeedOptional),
     SocialFeedBody.kv[2].v.xs[1]}

FeedInit ==
    /\ ResultIdle /\ RouteIdle /\ FacadeIdle /\ TaskIdle
    /\ decoder = "SocialFeedResponse"
    /\ \E known \in KnownFeeds, choice \in ExtraChoices :
          rawIn = DictV(WithOptional(known.kv, ExtraEntries, choice))
    /\ rawNow = rawIn
    /\ decodeLog = <<>>
    /\ tz = 0

FeedNext == Decode

FeedSpec == FeedInit /\ [][FeedNext]_vars

\* the object without the entries the model has no field for
KnownPart(data) == DictV(SelectSeq(data.kv, LAMBDA e : e.k \in SocialFeedKeys))

\* C26: SocialFeedResponse.from_raw ignores unknown keys.  For every raw
\* object with the required keys and any additional keys that are not fields
\* of the model, from_raw succeeds and the model it returns has the fields
\* that decoding the object without the additional keys gives.
UnknownKeysIgnored ==
    Len(decodeLog) >= 1 =>
        /\ decodeLog[1].out.kind = "return"
        /\ decodeLog[1].out = SocialFeedResponse_from_raw(KnownPart(rawIn))

\* the same for every additional key but __class__
UnknownKeysIgnoredButClass ==
    (Len(decodeLog) >= 1 /\ ~HasKey(rawIn.kv, "__class__")) =>
        /\ decodeLog[1].out.kind = "return"
        /\ decodeLog[1].out = SocialFeedResponse_from_raw(KnownPart(rawIn))

\* an object with three additional keys was decoded
ThreeUnknownKeysIgnored ==
    /\ Len(decodeLog) >= 1
    /\ Cardinality({i \in 1..Len(rawIn.kv) :
                        rawIn.kv[i].k \notin SocialFeedKeys}) = 3
    /\ decodeLog[1].out.kind = "return"

\* an object with the additional key __class__ was decoded: TypeError
ClassKeyRaisesTypeError ==
    /\ Len(decodeLog) >= 1
    /\ HasKey(rawIn.kv, "__class__")
    /\ decodeLog[1].out.kind = "raise"
    /\ decodeLog[1].out.err.exc = "TypeError"

----------------------------------------------------------------------------
(* Which query parameters the price and search operations send *)

PriceOps == HistoryOps \cup {"get_latest_exchange_price"}

\* the request carries this parameter with a value that is not the empty text
SentNonEmpty(key) == HasKey(sent.params, key) /\ Get(sent.params, key) # StrV(<<>>)

\* a call of get_latest_exchange_price whose tokens are all the empty text
OnlyBlankTokens(c) ==
    /\ c.op = "get_latest_exchange_price"
    /\ c.ids_or_names # <<>>
    /\ \A i \in 1..Len(c.ids_or_names) : c.ids_or_names[i] = StrV(<<>>)

\* C27: every request sent by the latest, historical and compressed price
\* operations carries `id` or `name` with a non-empty value; a call whose
\* arguments produce neither is rejected with MissingArgumentError before
\* fetch is invoked.
PriceRequestNamesItem ==
    (call.op \in PriceOps /\ pc # "idle") =>
        IF sent.made THEN SentNonEmpty("id") \/ SentNonEmpty("name")
        ELSE RaisedBeforeFetch("MissingArgumentError")

\* the same for every call but those whose tokens are all the empty text
PriceRequestNamesItemUnlessBlank ==
    (call.op \in PriceOps /\ pc # "idle" /\ ~OnlyBlankTokens(call)) =>
        IF sent.made THEN SentNonEmpty("id") \/ SentNonEmpty("name")
        ELSE RaisedBeforeFetch("MissingArgumentError")

\* get_latest_exchange_price(game, "") was sent with neither id nor name
BlankTokenSentWithoutItem ==
    /\ call.op = "get_latest_exchange_price"
    /\ call.ids_or_names = <<StrV(<<>>)>>
    /\ sent.made
    /\ ~HasKey(sent.params, "id") /\ ~HasKey(sent.params, "name")

\* C28: the historical and compressed price operations raise
\* MissingArgumentError only when both id and name are None; every call that
\* supplies an integer id, 0 included, is sent with that id as the `id`
\* parameter.
IntegerIdAlwaysSent ==
    (call.op \in HistoryOps /\ pc # "idle") =>
        /\ RaisedBeforeFetch("MissingArgumentError")
              => (call.id = NoneV /\ call.name = NoneV)
        /\ call.id # NoneV
              => (sent.made /\ DictGet(sent.params, "id") = call.id)

\* the same for ids that are not 0 and names that are not empty
TruthyIdAlwaysSent ==
    (call.op \in HistoryOps /\ pc # "idle" /\ call.id # IntV(0)
        /\ call.name # StrV(<<>>)) =>
        /\ RaisedBeforeFetch("MissingArgumentError")
              => (call.id = NoneV /\ call.name = NoneV)
        /\ call.id # NoneV
              => (sent.made /\ DictGet(sent.params, "id") = call.id)

\* id 0 without a name was rejected as if no id had been given
ZeroIdRejected ==
    /\ call.op = "get_historical_exchange_price"
    /\ call.id = IntV(0) /\ call.name = NoneV
    /\ RaisedBeforeFetch("MissingArgumentError")

\* id 0 with a name was sent without the `id` parameter
ZeroIdNotSent ==
    /\ call.op = "get_historical_exchange_price"
    /\ call.id = IntV(0) /\ call.name = StrV(<<"Abyssal whip">>)
    /\ sent.made
    /\ ~HasKey(sent.params, "id")

\* the request carries the ISO text of this argument, or nothing for None
SentAsIso(key, time) ==
    IF time = NoneV THEN ~HasKey(sent.params, key)
    ELSE DictGet(sent.params, key) = StrV(isoformat(time))

\* C29: a request of the three search operations carries `number` equal to
\* count whenever count is not None, 0 included, `start` and `end` as the ISO
\* texts of start_at and end_at when they are given, and none of the three
\* for an argument that is None.
SearchWindowSent ==
    (call.op \in SearchOps /\ sent.made) =>
        /\ IF call.count = NoneV THEN ~HasKey(sent.params, "number")
           ELSE DictGet(sent.params, "number") = call.count
        /\ SentAsIso("start", call.start_at)
        /\ SentAsIso("end", call.end_at)

\* the same for counts that are not 0
SearchWindowSentUnlessZero ==
    (call.op \in SearchOps /\ sent.made /\ call.count # IntV(0)) =>
        /\ IF call.count = NoneV THEN ~HasKey(sent.params, "number")
           ELSE DictGet(sent.params, "number") = call.count
        /\ SentAsIso("start", call.start_at)
        /\ SentAsIso("end", call.end_at)

\* a search with count 0 and a start date was sent without `number`
ZeroCountNotSent ==
    /\ call.op = "search_tms_by_id"
    /\ call.count = IntV(0)
    /\ call.start_at # NoneV
    /\ sent.made
    /\ HasKey(sent.params, "start")
    /\ ~HasKey(sent.params, "number")

----------------------------------------------------------------------------
(* client.py: Client methods hand their arguments to a method of a service *)

\* what RealtimeService and WeirdGloopService define
RealtimeServiceMethods ==
    {"_fetch", "get_price", "get_mapping", "get_avg_price",
     "get_avg_price_by_id"}
WeirdGloopServiceMethods ==
    {"_fetch", "_set_price_params_and_fetch", "_set_tms_name_params_and_fetch",
     "_set_tms_id_params_and_fetch", "_set_generic_tms_params", "get_vos",
     "get_vos_history", "get_latest_exchange_update", "get_social_feed",
     "get_latest_social_feed", "get_latest_exchange_price",
     "get_historical_exchange_price",
     "get_compressed_historical_exchange_price", "get_current_tms",
     "get_next_tms", "search_tms_by_name", "search_tms_by_id",
     "search_tms_by_id_full"}

\* await self._service.method(...): the attribute is looked up on the service,
\* then its handler runs to its await
Delegate(cls, methods, c) ==
    IF c.op \in methods THEN ToAwait(c)
    ELSE Raise(AttributeError(<<"'", cls, "' object has no attribute '",
                                c.op, "'">>))

\* Client.get_realtime_price(id, game):
\* return await self._realtime.get_realtime_price(game, id)
ClientGetRealtimePrice(id, game) ==
    Begin([op |-> "get_realtime_price", game |-> game, id |-> id],
          Delegate("RealtimeService", RealtimeServiceMethods,
                   [op |-> "get_realtime_price", game |-> game, id |-> id]))

\* Client.search_tms_by_id(*ids, start_at, end_at, count):
\* return await self._weird_gloop.search_tms_by_id(*ids, start_at=..., ...)
ClientSearchTmsById(ids, start_at, end_at, count) ==
    Begin([op |-> "search_tms_by_id", ids |-> ids,
           start_at |-> start_at, end_at |-> end_at, count |-> count],
          Delegate("WeirdGloopService", WeirdGloopServiceMethods,
                   [op |-> "search_tms_by_id", ids |-> ids,
                    start_at |-> start_at, end_at |-> end_at,
                    count |-> count]))

ClientInit == ResultIdle /\ RouteIdle /\ FacadeIdle /\ TaskIdle /\ DecodeIdle

ClientNext ==
    \/ \E id \in Ids, game \in RtGameType : ClientGetRealtimePrice(id, game)
    \/ \E ids \in SeqsUpTo(SearchIds, MaxTokens), start_at \in Times,
          end_at \in Times, count \in Counts :
          ClientSearchTmsById(ids, start_at, end_at, count)
    \/ \E data \in Bodies(call.op) : FetchReturns(data)
    \/ \E text \in FailureTexts : FetchRaises(text)
    \/ Finish

ClientSpec == ClientInit /\ [][ClientNext]_vars

\* C30: Client.get_realtime_price(id, game) delegates to the realtime
\* service's get_price(game, id): the transport is handed the realtime price
\* route compiled for that game, and the caller gets the Result that
\* get_price returns, unchanged.
ClientRealtimePriceDelegates ==
    (call.op = "get_realtime_price" /\ pc # "idle") =>
        /\ sent.made
        /\ sent.base = REALTIME_PRICE.base
        /\ sent.uri = Route_compile(REALTIME_PRICE,
                                    <<StrV(call.game.value)>>).val.uri
        /\ reply.kind = "json" => outcome = get_price_return(reply.data)

\* Client.get_realtime_price never reaches the transport: the service has no
\* attribute of the name the Client calls
ClientRealtimePriceNeverFetches ==
    (call.op = "get_realtime_price" /\ pc # "idle") =>
        /\ RaisedBeforeFetch("AttributeError")
        /\ outcome.err.msg = <<"'", "RealtimeService",
                               "' object has no attribute '",
                               "get_realtime_price", "'">>

\* Client.search_tms_by_id does reach the service method of its name
ClientSearchDelegates ==
    (call.op = "search_tms_by_id" /\ pc # "idle") =>
        IF sent.made
        THEN /\ Await(sent) = ToAwait(call)
             /\ reply.kind = "json"
                   => outcome = search_tms_by_id_return(reply.data)
        ELSE outcome = ToAwait(call)

\* client.get_realtime_price(4151) ended in AttributeError
RealtimePriceCallFailed ==
    /\ call.op = "get_realtime_price"
    /\ call.id = IntV(4151)
    /\ call.game = Enum("RtGameType", "OSRS", <<"osrs">>)
    /\ RaisedBeforeFetch("AttributeError")

\* client.search_tms_by_id(42274, count=5) returned the service's Result
SearchCallReturned ==
    /\ call.op = "search_tms_by_id"
    /\ sent.made
    /\ pc = "done"
    /\ reply.kind = "json"
    /\ outcome.kind = "return"

====
